---- MODULE Spec2Model ----
(***************************************************************************)
(* Stream aggregation and resolution core of the media front end:          *)
(*   - fetchApi            (relay request, then one direct fallback)       *)
(*   - getStreams / getEpisodeStreams (two torrent backends, hash dedup)   *)
(*   - getMatchesFromPPV / getMatchesFromStreamed / getAllMatches          *)
(*   - getMatchStreams     (locator dispatch: composite, iframe, bare key) *)
(*   - services/sports.ts  (getMatchesFromNewApi behind getAllMatches)     *)
(*   - SportsPlayer        (toggleSource, stream cache, auto-play)         *)
(*   - Details             (fetchEp on season / episode change)            *)
(* Strings whose characters the code inspects are sequences of             *)
(* one-character strings; other strings are atoms.                         *)
(***************************************************************************)
EXTENDS Integers, Sequences, FiniteSets, TLC

VARIABLES
    fetchCall,     \* one call of fetchApi: position, requests issued, outcome
    torrentio_url, \* localStorage item 'torrentio_url' (<<>> = not set, else <<chars>>)
    tCall,         \* one call of getStreams / getEpisodeStreams
    tProv,         \* the two fetchFromProvider calls of that call
    tReqs,         \* network requests issued by that call, in order
    sCall,         \* one call of getAllMatches: position and returned list
    sFetch,        \* the fetchApi call of each sports backend
    sNorm,         \* each backend's normalized list once its branch settled
    sOrder,        \* the order in which the two branches settled
    ppvLoop,       \* the forEach loops of getMatchesFromPPV, stream by stream
    rCall,         \* one call of getMatchStreams: arguments, lookup, returned list
    nCall,         \* one call of getAllMatches of services/sports.ts
    player,        \* one SportsPlayer view: its state and the fetches in flight
    details        \* one Details view: selected episode, requests, shown streams

vars == <<fetchCall, torrentio_url, tCall, tProv, tReqs, sCall, sFetch, sNorm, sOrder,
          ppvLoop, rCall, nCall, player, details>>

\* ------------------------------------------------------------------ helpers

RECURSIVE SeqsUpTo(_, _)
\* all sequences over S of length at most n
SeqsUpTo(S, n) ==
    IF n = 0 THEN {<<>>}
    ELSE LET shorter == SeqsUpTo(S, n - 1)
         IN  shorter \cup {Append(q, x) : q \in {r \in shorter : Len(r) = n - 1}, x \in S}

\* the least element of a non-empty set of numbers
Min(S) == CHOOSE x \in S : \A y \in S : x <= y

Max(S) == CHOOSE x \in S : \A y \in S : x >= y

\* String.prototype.startsWith on character sequences
StartsWith(s, p) == Len(s) >= Len(p) /\ SubSeq(s, 1, Len(p)) = p

Digits == <<"0", "1", "2", "3", "4", "5", "6", "7", "8", "9">>

UpperLetters == <<"A", "B", "C", "D", "E", "F", "G", "H", "I", "J", "K", "L", "M", "N", "O", "P", "Q", "R", "S", "T", "U", "V", "W", "X", "Y", "Z">>
LowerLetters == <<"a", "b", "c", "d", "e", "f", "g", "h", "i", "j", "k", "l", "m", "n", "o", "p", "q", "r", "s", "t", "u", "v", "w", "x", "y", "z">>

\* The characters of the model's strings: printable ASCII (the grave accent
\* left out) and the characters named below by their code point. The case,
\* white-space and escape tables that follow are total on this alphabet.
\*
\* cased letters outside A-Z and a-z, each with its lower-case code units
LowerBeyondAscii ==
    << <<"U+00C9", <<"U+00E9">> >>,
       <<"U+00D1", <<"U+00F1">> >>,
       <<"U+0130", <<"i", "U+0307">> >>,
       <<"U+03A3", <<"U+03C3">> >> >>

\* the characters with the Cased property
Cased(c) ==
    \/ \E n \in 1..Len(UpperLetters) : c \in {UpperLetters[n], LowerLetters[n]}
    \/ \E n \in 1..Len(LowerBeyondAscii) : c = LowerBeyondAscii[n][1]
    \/ c \in {"U+00E9", "U+00F1", "U+03C3", "U+03C2"}

\* the characters of the alphabet with the Case_Ignorable property: the
\* apostrophe, the full stop and the colon (word-break classes Single_Quote,
\* MidNumLet, MidLetter), the circumflex (a modifier symbol), the combining
\* dot above (a nonspacing mark) and U+FEFF (a format character)
CaseIgnorable(c) == c \in {"'", ".", ":", "^", "U+0307", "U+FEFF"}

\* the lower-case code units of one character, whatever stands around it
ToLowerChar(c) ==
    IF \E n \in 1..Len(UpperLetters) : UpperLetters[n] = c
    THEN <<LowerLetters[CHOOSE n \in 1..Len(UpperLetters) : UpperLetters[n] = c]>>
    ELSE IF \E n \in 1..Len(LowerBeyondAscii) : LowerBeyondAscii[n][1] = c
    THEN LowerBeyondAscii[CHOOSE n \in 1..Len(LowerBeyondAscii) : LowerBeyondAscii[n][1] = c][2]
    ELSE <<c>>

\* Final_Sigma: a capital sigma that follows a cased letter (case-ignorable
\* characters between them or not) and is not followed by one
FinalSigma(s, k) ==
    /\ s[k] = "U+03A3"
    /\ \E i \in 1..(k - 1) :
          Cased(s[i]) /\ \A j \in (i + 1)..(k - 1) : CaseIgnorable(s[j])
    /\ ~\E i \in (k + 1)..Len(s) :
          Cased(s[i]) /\ \A j \in (k + 1)..(i - 1) : CaseIgnorable(s[j])

RECURSIVE LowerFrom(_, _)
LowerFrom(s, k) ==
    IF k > Len(s) THEN <<>>
    ELSE (IF FinalSigma(s, k) THEN <<"U+03C2">> ELSE ToLowerChar(s[k])) \o LowerFrom(s, k + 1)

\* String.prototype.toLowerCase
toLowerCase(s) == LowerFrom(s, 1)

\* a UTF-16 surrogate code unit that has no partner next to it
LoneSurrogate == "U+D800"

\* the characters encodeURIComponent leaves as they are
Unreserved(c) ==
    \/ \E n \in 1..Len(UpperLetters) : c \in {UpperLetters[n], LowerLetters[n]}
    \/ \E n \in 1..Len(Digits) : c = Digits[n]
    \/ c \in {"-", "_", ".", "!", "~", "*", "'", "(", ")"}

\* the escapes of the other characters of the alphabet: the UTF-8 bytes of
\* the character, each as a percent sign and two hexadecimal digits
Escapes ==
    << <<" ", <<"%", "2", "0">> >>,
      <<"\"", <<"%", "2", "2">> >>,
      <<"#", <<"%", "2", "3">> >>,
      <<"$", <<"%", "2", "4">> >>,
      <<"%", <<"%", "2", "5">> >>,
      <<"&", <<"%", "2", "6">> >>,
      <<"+", <<"%", "2", "B">> >>,
      <<",", <<"%", "2", "C">> >>,
      <<"/", <<"%", "2", "F">> >>,
      <<":", <<"%", "3", "A">> >>,
      <<";", <<"%", "3", "B">> >>,
      <<"<", <<"%", "3", "C">> >>,
      <<"=", <<"%", "3", "D">> >>,
      <<">", <<"%", "3", "E">> >>,
      <<"?", <<"%", "3", "F">> >>,
      <<"@", <<"%", "4", "0">> >>,
      <<"[", <<"%", "5", "B">> >>,
      <<"\\", <<"%", "5", "C">> >>,
      <<"]", <<"%", "5", "D">> >>,
      <<"^", <<"%", "5", "E">> >>,
      <<"{", <<"%", "7", "B">> >>,
      <<"|", <<"%", "7", "C">> >>,
      <<"}", <<"%", "7", "D">> >>,
      <<"\t", <<"%", "0", "9">> >>,
      <<"\n", <<"%", "0", "A">> >>,
      <<"U+000B", <<"%", "0", "B">> >>,
      <<"\f", <<"%", "0", "C">> >>,
      <<"\r", <<"%", "0", "D">> >>,
      <<"U+00A0", <<"%", "C", "2", "%", "A", "0">> >>,
      <<"U+1680", <<"%", "E", "1", "%", "9", "A", "%", "8", "0">> >>,
      <<"U+2000", <<"%", "E", "2", "%", "8", "0", "%", "8", "0">> >>,
      <<"U+2001", <<"%", "E", "2", "%", "8", "0", "%", "8", "1">> >>,
      <<"U+2002", <<"%", "E", "2", "%", "8", "0", "%", "8", "2">> >>,
      <<"U+2003", <<"%", "E", "2", "%", "8", "0", "%", "8", "3">> >>,
      <<"U+2004", <<"%", "E", "2", "%", "8", "0", "%", "8", "4">> >>,
      <<"U+2005", <<"%", "E", "2", "%", "8", "0", "%", "8", "5">> >>,
      <<"U+2006", <<"%", "E", "2", "%", "8", "0", "%", "8", "6">> >>,
      <<"U+2007", <<"%", "E", "2", "%", "8", "0", "%", "8", "7">> >>,
      <<"U+2008", <<"%", "E", "2", "%", "8", "0", "%", "8", "8">> >>,
      <<"U+2009", <<"%", "E", "2", "%", "8", "0", "%", "8", "9">> >>,
      <<"U+200A", <<"%", "E", "2", "%", "8", "0", "%", "8", "A">> >>,
      <<"U+2028", <<"%", "E", "2", "%", "8", "0", "%", "A", "8">> >>,
      <<"U+2029", <<"%", "E", "2", "%", "8", "0", "%", "A", "9">> >>,
      <<"U+202F", <<"%", "E", "2", "%", "8", "0", "%", "A", "F">> >>,
      <<"U+205F", <<"%", "E", "2", "%", "8", "1", "%", "9", "F">> >>,
      <<"U+3000", <<"%", "E", "3", "%", "8", "0", "%", "8", "0">> >>,
      <<"U+FEFF", <<"%", "E", "F", "%", "B", "B", "%", "B", "F">> >>,
      <<"U+00C9", <<"%", "C", "3", "%", "8", "9">> >>,
      <<"U+00E9", <<"%", "C", "3", "%", "A", "9">> >>,
      <<"U+00D1", <<"%", "C", "3", "%", "9", "1">> >>,
      <<"U+00F1", <<"%", "C", "3", "%", "B", "1">> >>,
      <<"U+0130", <<"%", "C", "4", "%", "B", "0">> >>,
      <<"U+0307", <<"%", "C", "C", "%", "8", "7">> >>,
      <<"U+03A3", <<"%", "C", "E", "%", "A", "3">> >>,
      <<"U+03C3", <<"%", "C", "F", "%", "8", "3">> >>,
      <<"U+03C2", <<"%", "C", "F", "%", "8", "2">> >> >>

EncodeChar(c) ==
    IF Unreserved(c) THEN <<c>>
    ELSE Escapes[CHOOSE n \in 1..Len(Escapes) : Escapes[n][1] = c][2]

\* encodeURIComponent throws URIError on an unpaired surrogate
EncodeThrows(s) == \E k \in 1..Len(s) : s[k] = LoneSurrogate

RECURSIVE encodeURIComponent(_)
encodeURIComponent(s) ==
    IF s = <<>> THEN <<>> ELSE EncodeChar(Head(s)) \o encodeURIComponent(Tail(s))

\* ------------------------------------------------------------------ network

\* What one HTTP request can end in: the fetch promise rejects, or a response
\* arrives with a status and a body that decodes as JSON or does not.
NetErr == [kind |-> "neterr", status |-> 0, decodes |-> FALSE, body |-> <<>>]

Response(status, decodes, body) ==
    [kind |-> "response", status |-> status, decodes |-> decodes, body |-> body]

\* Response.ok
ResOk(o) == o.kind = "response" /\ o.status >= 200 /\ o.status <= 299

\* the ways a request fails to yield a value, and the ways it yields one
FailureOutcomes(errBody) ==
    {NetErr, Response(200, FALSE, <<>>), Response(404, FALSE, <<>>),
     Response(500, TRUE, <<errBody>>)}

SuccessOutcomes(statuses, bodies) ==
    {Response(st, TRUE, <<b>>) : st \in statuses, b \in bodies}

\* ------------------------------------------------------------------ fetchApi

PROXY_URL == "https://corsproxy.io/?"

\* fetch(`${PROXY_URL}${encodeURIComponent(url)}`)
RelayRequest(url) == [via |-> "relay", to |-> PROXY_URL, target |-> url]

\* fetch(url)
DirectRequest(url) == [via |-> "direct", to |-> url, target |-> url]

\* The exception an attempt ends in: fetch's rejection, the Error thrown on
\* !res.ok, or the rejection of res.json().
AttemptError(attempt, o) ==
    [attempt |-> attempt,
     what    |-> IF o.kind = "neterr" THEN "network"
                 ELSE IF ~ResOk(o) THEN "status" ELSE "decode",
     status  |-> o.status]

\* An attempt returns a value iff the response is ok and its body decodes.
AttemptSucceeds(o) == ResOk(o) /\ o.decodes

FetchIdle == [pc |-> "idle", url |-> <<>>, reqs |-> <<>>, e |-> <<>>,
              seen |-> <<>>, value |-> <<>>, thrown |-> <<>>]

\* the URIError of encodeURIComponent(url), thrown before any request
UrlError == [attempt |-> "none", what |-> "URIError", status |-> 0]

\* const proxyUrl = `${PROXY_URL}${encodeURIComponent(url)}` (outside the
\* try), then await fetch(proxyUrl)
FetchStart(url) ==
    IF EncodeThrows(url)
    THEN [FetchIdle EXCEPT !.pc = "rejected", !.url = url, !.thrown = <<UrlError>>]
    ELSE [FetchIdle EXCEPT !.pc = "relay", !.url = url, !.reqs = <<RelayRequest(url)>>]

ThrowOfDirect(e, err) == err

\* catch (err) { throw e; }
ThrownWhenBothFail(e, err) == e

AlwaysFallback(fs, o) ==
    [fs EXCEPT !.pc = "direct", !.e = <<AttemptError("relay", o)>>,
               !.reqs = Append(@, DirectRequest(fs.url)), !.seen = Append(@, o)]

FallbackOnStatusOnly(fs, o) ==
    IF AttemptSucceeds(o)
    THEN [fs EXCEPT !.pc = "resolved", !.value = o.body, !.seen = Append(@, o)]
    ELSE IF ResOk(o)
    THEN [fs EXCEPT !.pc = "rejected", !.thrown = <<AttemptError("relay", o)>>,
                    !.e = <<AttemptError("relay", o)>>, !.seen = Append(@, o)]
    ELSE [fs EXCEPT !.pc = "direct", !.e = <<AttemptError("relay", o)>>,
                    !.reqs = Append(@, DirectRequest(fs.url)),
                    !.seen = Append(@, o)]

\* the relay request settles: return res.json(), or catch (e) and fetch(url)
FetchRelaySettled(fs, o) ==
    IF AttemptSucceeds(o)
    THEN [fs EXCEPT !.pc = "resolved", !.value = o.body, !.seen = Append(@, o)]
    ELSE [fs EXCEPT !.pc = "direct", !.e = <<AttemptError("relay", o)>>,
                    !.reqs = Append(@, DirectRequest(fs.url)),
                    !.seen = Append(@, o)]

\* the direct request settles: return directRes.json(), or catch (err) { throw e }
FetchDirectSettled(fs, o) ==
    IF AttemptSucceeds(o)
    THEN [fs EXCEPT !.pc = "resolved", !.value = o.body, !.seen = Append(@, o)]
    ELSE [fs EXCEPT !.pc = "rejected", !.seen = Append(@, o),
                    !.thrown = <<ThrownWhenBothFail(fs.e[1], AttemptError("direct", o))>>]

\* one settled request moves the call on
FetchSettled(fs, o) ==
    IF fs.pc = "relay" THEN FetchRelaySettled(fs, o) ELSE FetchDirectSettled(fs, o)

FetchAwaiting(fs) == fs.pc \in {"relay", "direct"}
FetchDone(fs) == fs.pc \in {"resolved", "rejected"}

\* bodies and target URLs of the stand-alone fetchApi specification
JsonBodies == {"null", "list", "object"}
TargetUrls == {<<"https://ppv.to/api", "/streams">>,
               <<"https://streamed.pk/api", "/matches/all">>,
               <<"https://streamed.pk/api", "/stream/", "a", "/", "1">>,
               <<"https://streamed.pk/api", "/stream/", "a", LoneSurrogate, "/", "1">>}

\* fetchApi(url) is called
FetchApiCall ==
    /\ fetchCall.pc = "idle"
    /\ \E url \in TargetUrls : fetchCall' = FetchStart(url)
    /\ UNCHANGED <<torrentio_url, tCall, tProv, tReqs, sCall, sFetch, sNorm, sOrder, ppvLoop, rCall,
                   nCall, player, details>>

\* the request in flight settles
FetchApiSettles ==
    /\ FetchAwaiting(fetchCall)
    /\ \E o \in FailureOutcomes("object") \cup SuccessOutcomes({200, 201, 299}, JsonBodies) :
           fetchCall' = FetchSettled(fetchCall, o)
    /\ UNCHANGED <<torrentio_url, tCall, tProv, tReqs, sCall, sFetch, sNorm, sOrder, ppvLoop, rCall,
                   nCall, player, details>>

\* ------------------------------------------------------------------ torrent aggregator

\* import { TORRENTIO_BASE_URL } from '../constants' (a stand-in for its text)
TORRENTIO_BASE_URL == <<"t", "o", "r">>

KNIGHTCRAWLER_BASE_URL == <<"k", "c">>

\* WhiteSpace and LineTerminator of ECMAScript: what trim strips
WhiteSpace ==
    {" ", "\t", "\n", "U+000B", "\f", "\r", "U+00A0", "U+1680", "U+2000", "U+2001",
     "U+2002", "U+2003", "U+2004", "U+2005", "U+2006", "U+2007", "U+2008", "U+2009",
     "U+200A", "U+2028", "U+2029", "U+202F", "U+205F", "U+3000", "U+FEFF"}

RECURSIVE TrimStart(_)
TrimStart(s) == IF s # <<>> /\ Head(s) \in WhiteSpace THEN TrimStart(Tail(s)) ELSE s

RECURSIVE TrimEnd(_)
TrimEnd(s) ==
    IF s # <<>> /\ s[Len(s)] \in WhiteSpace THEN TrimEnd(SubSeq(s, 1, Len(s) - 1)) ELSE s

\* String.prototype.trim
Trim(s) == TrimEnd(TrimStart(s))

\* getBaseUrl: the stored URL unless it is missing or blank
getBaseUrl(stored) ==
    IF stored # <<>> /\ Len(Trim(stored[1])) > 0 THEN stored[1] ELSE TORRENTIO_BASE_URL

\* type === MediaType.MOVIE ? 'movie' : 'series'
StremioType(type) == IF type = "movie" THEN "movie" ELSE "series"

\* `/stream/${stremioType}/${id}.json`
Endpoint(stremioType, id) == [path |-> "/stream/", type |-> stremioType, id |-> id, ext |-> ".json"]

\* `${imdbId}:${season}:${episode}` for one-digit seasons and episodes
StreamId(imdbId, season, episode) ==
    imdbId \o <<":", Digits[season + 1], ":", Digits[episode + 1]>>

\* fetch(`${baseUrl}${endpoint}`)
ProviderRequest(baseUrl, endpoint) == [via |-> "direct", to |-> baseUrl, endpoint |-> endpoint]

\* A stream's infoHash is <<>> when the field is absent and <<chars>> when it
\* is a string; JavaScript treats the absent field and the empty string as false.
Truthy(h) == h # <<>> /\ Len(h[1]) > 0

\* A decoded provider body: null, or an object whose streams field is absent,
\* an array, or some other truthy value that cannot be spread.
NullBody == [isNull |-> TRUE, streamsKind |-> "absent", streams |-> <<>>]
ObjectBody(kind, streams) == [isNull |-> FALSE, streamsKind |-> kind, streams |-> streams]

\* What fetchFromProvider resolves to; spreadable is false for a value that
\* [...x] throws on.
ProviderList(list) == [spreadable |-> TRUE, list |-> list]
NotAList == [spreadable |-> FALSE, list |-> <<>>]

ProviderThrowsOnFailure(o) ==
    IF ~AttemptSucceeds(o) THEN NotAList
    ELSE IF o.body[1].isNull THEN ProviderList(<<>>)
    ELSE IF o.body[1].streamsKind = "absent" THEN ProviderList(<<>>)
    ELSE IF o.body[1].streamsKind = "array" THEN ProviderList(o.body[1].streams)
    ELSE NotAList

\* fetchFromProvider, once its request has settled in o
fetchFromProvider(o) ==
    IF o.kind = "neterr" THEN ProviderList(<<>>)            \* catch: return []
    ELSE IF ~ResOk(o) THEN ProviderList(<<>>)               \* if (!res.ok) return []
    ELSE IF ~o.decodes THEN ProviderList(<<>>)              \* res.json() rejects: catch
    ELSE IF o.body[1].isNull THEN ProviderList(<<>>)        \* data.streams throws: catch
    ELSE IF o.body[1].streamsKind = "absent" THEN ProviderList(<<>>)  \* data.streams || []
    ELSE IF o.body[1].streamsKind = "array" THEN ProviderList(o.body[1].streams)
    ELSE NotAList

\* the forEach over allStreams with its seenHashes set, up to entry i
RECURSIVE DedupWalk(_, _)
DedupWalk(allStreams, i) ==
    IF i = 0 THEN [uniqueStreams |-> <<>>, seenHashes |-> {}]
    ELSE LET prev   == DedupWalk(allStreams, i - 1)
             stream == allStreams[i]
         IN  IF Truthy(stream.infoHash)
             THEN IF stream.infoHash[1] \notin prev.seenHashes
                  THEN [uniqueStreams |-> Append(prev.uniqueStreams, stream),
                        seenHashes    |-> prev.seenHashes \cup {stream.infoHash[1]}]
                  ELSE prev
             ELSE [prev EXCEPT !.uniqueStreams = Append(@, stream)]

Reversed(q) == [i \in 1..Len(q) |-> q[Len(q) + 1 - i]]

DedupKeepsLast(allStreams) ==
    Reversed(DedupWalk(Reversed(allStreams), Len(allStreams)).uniqueStreams)

DedupDropsHashless(allStreams) ==
    SelectSeq(DedupWalk(allStreams, Len(allStreams)).uniqueStreams,
              LAMBDA s : Truthy(s.infoHash))

\* the merge-and-deduplicate block of getStreams / getEpisodeStreams
Deduplicate(allStreams) == DedupWalk(allStreams, Len(allStreams)).uniqueStreams

\* a merge that takes the two lists in the order in which the calls settled
MergeInArrivalOrder(torrentioStreams, knightCrawlerStreams) ==
    IF torrentioStreams.spreadable /\ knightCrawlerStreams.spreadable
    THEN IF tProv["knightcrawler"].nth < tProv["torrentio"].nth
         THEN Deduplicate(knightCrawlerStreams.list \o torrentioStreams.list)
         ELSE Deduplicate(torrentioStreams.list \o knightCrawlerStreams.list)
    ELSE <<>>

\* the body of the try block after Promise.all, with its catch
MergeProviders(torrentioStreams, knightCrawlerStreams) ==
    IF torrentioStreams.spreadable /\ knightCrawlerStreams.spreadable
    THEN Deduplicate(torrentioStreams.list \o knightCrawlerStreams.list)
    ELSE <<>>                                               \* catch: { streams: [] }

Providers == {"torrentio", "knightcrawler"}

TIdle == [pc |-> "idle", fn |-> "", id |-> <<>>, endpoint |-> Endpoint("", <<>>),
          streams |-> <<>>]
\* nth: the place of the call among the settled ones (0 while it has not settled)
PIdle == [p \in Providers |->
            [pc |-> "idle", o |-> NetErr, result |-> ProviderList(<<>>), nth |-> 0]]
PPending == [p \in Providers |->
               [pc |-> "pending", o |-> NetErr, result |-> ProviderList(<<>>), nth |-> 0]]

\* both fetchFromProvider calls run up to their fetch, primary first
IssueBoth(baseUrl, endpoint) ==
    <<ProviderRequest(baseUrl, endpoint), ProviderRequest(KNIGHTCRAWLER_BASE_URL, endpoint)>>

\* if (!id.startsWith('tt')) return { streams: [] }
ValidImdbId(id) == StartsWith(id, <<"t", "t">>)

AnyIdAccepted(id) == TRUE

\* the guard getStreams applies to its id before any request
getStreamsAccepts(id) == ValidImdbId(id)

\* bound and inputs of the torrent specification
MaxProviderStreams == 2

Seasons == {1, 2}
Episodes == {1}

MediaTypes == {"movie", "tv"}
ImdbIds == {<<"t", "t", "1">>, <<"1", "2">>, <<"t">>}
StoredUrls == {<<>>, << <<" ">> >>, << <<"\t", "\n">> >>, << <<"u">> >>}
InfoHashes == {<<>>, << <<>> >>, << <<"a", "b">> >>, << <<"A", "B">> >>}

\* the stream lists provider p may answer with: entry i is titled by p and i
ProviderStreamLists(p) ==
    {[i \in 1..Len(hs) |-> [infoHash |-> hs[i], title |-> <<p, i>>]] :
        hs \in SeqsUpTo(InfoHashes, MaxProviderStreams)}

ProviderOutcomes(p) ==
    FailureOutcomes(ObjectBody("absent", <<>>))
      \cup SuccessOutcomes({200},
             {NullBody, ObjectBody("absent", <<>>), ObjectBody("object", <<>>)}
               \cup {ObjectBody("array", l) : l \in ProviderStreamLists(p)})

\* getStreams(type, id) is called
GetStreamsCall ==
    /\ tCall.pc = "idle"
    /\ \E type \in MediaTypes, id \in ImdbIds :
         LET endpoint == Endpoint(StremioType(type), id)
         IN  IF ~getStreamsAccepts(id)
             THEN /\ tCall' = [pc |-> "done", fn |-> "getStreams", id |-> id,
                               endpoint |-> endpoint, streams |-> <<>>]
                  /\ UNCHANGED <<tProv, tReqs>>
             ELSE /\ tCall' = [pc |-> "awaiting", fn |-> "getStreams", id |-> id,
                               endpoint |-> endpoint, streams |-> <<>>]
                  /\ tReqs' = IssueBoth(getBaseUrl(torrentio_url), endpoint)
                  /\ tProv' = PPending
    /\ UNCHANGED <<fetchCall, torrentio_url, sCall, sFetch, sNorm, sOrder, ppvLoop, rCall,
                   nCall, player, details>>

\* getEpisodeStreams(imdbId, season, episode) is called
GetEpisodeStreamsCall ==
    /\ tCall.pc = "idle"
    /\ \E imdbId \in ImdbIds, season \in Seasons, episode \in Episodes :
         LET endpoint == Endpoint("series", StreamId(imdbId, season, episode))
         IN  /\ tCall' = [pc |-> "awaiting", fn |-> "getEpisodeStreams", id |-> imdbId,
                          endpoint |-> endpoint, streams |-> <<>>]
             /\ tReqs' = IssueBoth(getBaseUrl(torrentio_url), endpoint)
             /\ tProv' = PPending
    /\ UNCHANGED <<fetchCall, torrentio_url, sCall, sFetch, sNorm, sOrder, ppvLoop, rCall,
                   nCall, player, details>>

\* the request of one fetchFromProvider call settles
ProviderSettles ==
    /\ tCall.pc = "awaiting"
    /\ \E p \in Providers :
         /\ tProv[p].pc = "pending"
         /\ \E o \in ProviderOutcomes(p) :
              tProv' = [tProv EXCEPT ![p] =
                          [pc |-> "settled", o |-> o, result |-> fetchFromProvider(o),
                           nth |-> 1 + Cardinality({q \in Providers : tProv[q].pc = "settled"})]]
    /\ UNCHANGED <<fetchCall, torrentio_url, tCall, tReqs, sCall, sFetch, sNorm, sOrder, ppvLoop, rCall,
                   nCall, player, details>>

\* Promise.all resolves: merge, deduplicate, return
TorrentJoin ==
    /\ tCall.pc = "awaiting"
    /\ \A p \in Providers : tProv[p].pc = "settled"
    /\ tCall' = [tCall EXCEPT !.pc = "done",
                   !.streams = MergeProviders(tProv["torrentio"].result,
                                              tProv["knightcrawler"].result)]
    /\ UNCHANGED <<fetchCall, torrentio_url, tProv, tReqs, sCall, sFetch, sNorm, sOrder, ppvLoop, rCall,
                   nCall, player, details>>

\* ------------------------------------------------------------------ sports aggregator

PPV_BASE == "https://ppv.to/api"
STREAMED_BASE == "https://streamed.pk/api"

\* the 2h window of the find in getMatchesFromPPV
GroupWindowMs == 7200000

\* the 2 hour window of the find in getAllMatches
MergeWindowMs == 7200000

Abs(x) == IF x < 0 THEN -x ELSE x

\* `https://ppv.to/api/images/proxy/${path}.webp`
PPVImageUrl(path) ==
    <<"h", "t", "t", "p", "s", ":", "/", "/", "p", "p", "v", ".", "t", "o", "/", "a", "p", "i",
      "/", "i", "m", "a", "g", "e", "s", "/", "p", "r", "o", "x", "y", "/">>
      \o path \o <<".", "w", "e", "b", "p">>

\* formatPPVPoster: undefined, the path itself, or the image URL behind the
\* relay; encodeURIComponent throws on a path with an unpaired surrogate
formatPPVPoster(path) ==
    IF path = <<>> THEN [throws |-> FALSE, value |-> <<>>]
    ELSE IF StartsWith(path, <<"h", "t", "t", "p">>) THEN [throws |-> FALSE, value |-> <<path>>]
    ELSE IF EncodeThrows(PPVImageUrl(path)) THEN [throws |-> TRUE, value |-> <<>>]
    ELSE [throws |-> FALSE,
          value |-> << <<PROXY_URL>> \o encodeURIComponent(PPVImageUrl(path)) >>]

\* formatStreamedPoster: undefined, the path itself, or the site's webp URL
formatStreamedPoster(path) ==
    IF path = <<>> THEN <<>>
    ELSE IF StartsWith(path, <<"h", "t", "t", "p">>) THEN <<path>>
    ELSE << <<"h", "t", "t", "p", "s", ":", "/", "/", "s", "t", "r", "e", "a", "m", "e", "d",
              ".", "p", "k">> \o path \o <<".", "w", "e", "b", "p">> >>

\* stream.tag || `PPV ${existing.sources.length + 1}`
SourceLabel(stream, n) ==
    IF stream.tag # <<>> THEN stream.tag ELSE <<"P", "P", "V", " ", Digits[n + 2]>>

\* stream.iframe ? `iframe:${stream.iframe}` : stream.uri_name
SourceId(stream) ==
    IF Truthy(stream.iframe)
    THEN <<"i", "f", "r", "a", "m", "e", ":">> \o stream.iframe[1]
    ELSE stream.uri_name

\* a search that groups only streams of the very same start time
ExistingSameStart(matches, stream) ==
    {i \in 1..Len(matches) :
        /\ matches[i].title = stream.name
        /\ matches[i].date = stream.starts_at * 1000}

ExistingWithinOrAt(matches, stream) ==
    {i \in 1..Len(matches) :
        /\ matches[i].title = stream.name
        /\ Abs(matches[i].date - stream.starts_at * 1000) <= GroupWindowMs}

\* matches.find(m => m.title === stream.name && Math.abs(m.date - starts_at * 1000) < 7200000)
ExistingFor(matches, stream) ==
    {i \in 1..Len(matches) :
        /\ matches[i].title = stream.name
        /\ Abs(matches[i].date - stream.starts_at * 1000) < GroupWindowMs}

KeepsAlwaysLive(stream) == FALSE

\* if (stream.always_live) return;
Skipped(stream) == stream.always_live # 0

\* a loop body that appends to the last Match that fits, not the first
ProcessStreamJoinsLast(matches, category, stream) ==
    IF Skipped(stream) THEN matches
    ELSE LET found == ExistingFor(matches, stream)
         IN  IF found = {}
             THEN Append(matches,
                         [title    |-> stream.name,
                          category |-> category,
                          date     |-> stream.starts_at * 1000,
                          poster   |-> formatPPVPoster(stream.poster).value,
                          popular  |-> <<>>,
                          teams    |-> <<>>,
                          sources  |-> <<[source |-> SourceLabel(stream, 0),
                                          id     |-> SourceId(stream)]>>])
             ELSE [matches EXCEPT ![Max(found)].sources =
                      Append(@, [source |-> SourceLabel(stream, Len(@)),
                                 id     |-> SourceId(stream)])]

\* a loop body that stores starts_at as it arrives, in seconds
ProcessStreamSeconds(matches, category, stream) ==
    IF Skipped(stream) THEN matches
    ELSE LET found == ExistingFor(matches, stream)
         IN  IF found = {}
             THEN Append(matches,
                         [title    |-> stream.name,
                          category |-> category,
                          date     |-> stream.starts_at,
                          poster   |-> formatPPVPoster(stream.poster).value,
                          popular  |-> <<>>,
                          teams    |-> <<>>,
                          sources  |-> <<[source |-> SourceLabel(stream, 0),
                                          id     |-> SourceId(stream)]>>])
             ELSE [matches EXCEPT ![Min(found)].sources =
                      Append(@, [source |-> SourceLabel(stream, Len(@)),
                                 id     |-> SourceId(stream)])]

\* the body of the inner forEach for one stream of category cat
ProcessStream(matches, category, stream) ==
    IF Skipped(stream) THEN matches
    ELSE LET found == ExistingFor(matches, stream)
         IN  IF found = {}
             THEN Append(matches,
                         [title    |-> stream.name,
                          category |-> category,
                          date     |-> stream.starts_at * 1000,
                          poster   |-> formatPPVPoster(stream.poster).value,
                          popular  |-> <<>>,
                          teams    |-> <<>>,
                          sources  |-> <<[source |-> SourceLabel(stream, 0),
                                          id     |-> SourceId(stream)]>>])
             ELSE [matches EXCEPT ![Min(found)].sources =
                      Append(@, [source |-> SourceLabel(stream, Len(@)),
                                 id     |-> SourceId(stream)])]

\* the loop body throws for this stream: it makes a new Match and the poster
\* of the stream cannot be encoded
StreamThrows(matches, stream) ==
    /\ ~Skipped(stream)
    /\ ExistingFor(matches, stream) = {}
    /\ formatPPVPoster(stream.poster).throws

\* the streams of all categories in iteration order, each with its category
RECURSIVE Items(_)
Items(cats) ==
    IF cats = <<>> THEN <<>>
    ELSE [i \in 1..Len(Head(cats).streams) |->
             [category |-> Head(cats).category, stream |-> Head(cats).streams[i]]]
           \o Items(Tail(cats))

\* the accumulator after the first n streams
RECURSIVE NormalizeWalk(_, _)
NormalizeWalk(items, n) ==
    IF n = 0 THEN <<>>
    ELSE ProcessStream(NormalizeWalk(items, n - 1), items[n].category, items[n].stream)

\* the loop throws within the first n streams
WalkThrows(items, n) ==
    \E k \in 1..n : StreamThrows(NormalizeWalk(items, k - 1), items[k].stream)

\* a decoded backend-A body: null, or an object with success and streams
\* (streams absent, an array of categories, or an object that is no array)
PPVBody(success, kind, cats) ==
    [isNull |-> FALSE, success |-> success, streamsKind |-> kind, streams |-> cats]
PPVNull == [isNull |-> TRUE, success |-> FALSE, streamsKind |-> "absent", streams |-> <<>>]

\* the try block of getMatchesFromPPV throws: fetchApi rejected, data is null
\* (data.success), data.streams has no forEach, or a poster cannot be encoded
PPVTryThrows(fs) ==
    \/ fs.pc = "rejected"
    \/ fs.value[1].isNull
    \/ fs.value[1].success /\ fs.value[1].streamsKind = "object"
    \/ /\ fs.value[1].success /\ fs.value[1].streamsKind = "array"
       /\ WalkThrows(Items(fs.value[1].streams), Len(Items(fs.value[1].streams)))

\* getMatchesFromPPV once its fetchApi call is done
getMatchesFromPPV(fs) ==
    IF PPVTryThrows(fs) THEN <<>>                            \* catch: return []
    ELSE IF ~fs.value[1].success \/ fs.value[1].streamsKind = "absent" THEN <<>>
    ELSE NormalizeWalk(Items(fs.value[1].streams), Len(Items(fs.value[1].streams)))

\* m.teams ? { home: {name, logo}, away: {name, logo} } : undefined
StreamedTeam(t) ==
    [name |-> t.name,
     logo |-> IF t.badge # <<>> THEN << <<"b", "a", "d", "g", "e", "/">> \o t.badge >> ELSE <<>>]

\* (m.sources || []).map(s => ({ source: `Streamed ${s.source}`, id: `streamed::${s.source}::${s.id}` }))
StreamedSources(raw) ==
    IF raw = <<>> THEN <<>>
    ELSE [k \in 1..Len(raw[1]) |->
            [source |-> <<"S", "t", "r", "e", "a", "m", "e", "d", " ">> \o raw[1][k].source,
             id     |-> <<"s", "t", "r", "e", "a", "m", "e", "d", ":", ":">>
                          \o raw[1][k].source \o <<":", ":">> \o raw[1][k].id]]

\* the object data.map builds for one backend-B record
StreamedMatch(m) ==
    [title    |-> m.title,
     category |-> m.category,
     date     |-> m.date,
     poster   |-> formatStreamedPoster(m.poster),
     popular  |-> m.popular,
     teams    |-> IF m.teams # <<>>
                  THEN <<[home |-> StreamedTeam(m.teams[1].home),
                          away |-> StreamedTeam(m.teams[1].away)]>>
                  ELSE <<>>,
     sources  |-> StreamedSources(m.sources)]

\* a decoded backend-B body; an element <<>> of the list is a null element
StreamedBody(isArray, list) == [isArray |-> isArray, list |-> list]

\* the try block of getMatchesFromStreamed throws: fetchApi rejected, or the
\* map callback reads m.title of a null element
StreamedTryThrows(fs) ==
    \/ fs.pc = "rejected"
    \/ fs.value[1].isArray /\ \E j \in 1..Len(fs.value[1].list) : fs.value[1].list[j] = <<>>

\* getMatchesFromStreamed once its fetchApi call is done
getMatchesFromStreamed(fs) ==
    IF StreamedTryThrows(fs) THEN <<>>                       \* catch: return []
    ELSE IF ~fs.value[1].isArray THEN <<>>                   \* if (!Array.isArray(data)) return []
    ELSE [j \in 1..Len(fs.value[1].list) |-> StreamedMatch(fs.value[1].list[j])]

\* a search that also takes a backend-B match exactly the window away
FoundWithinOrAt(streamedMatches, match) ==
    {j \in 1..Len(streamedMatches) :
        /\ streamedMatches[j].title = match.title
        /\ Abs(streamedMatches[j].date - match.date) <= MergeWindowMs}

\* streamedMatches.find(sm => sm.title === match.title && Math.abs(sm.date - match.date) < 7200000)
FoundFor(streamedMatches, match) ==
    {j \in 1..Len(streamedMatches) :
        /\ streamedMatches[j].title = match.title
        /\ Abs(streamedMatches[j].date - match.date) < MergeWindowMs}

\* an enrichment from the last backend-B match that fits, not the first
EnrichFromLast(match, streamedMatches) ==
    LET found == FoundFor(streamedMatches, match)
    IN  IF found = {} THEN match
        ELSE [match EXCEPT
                !.sources = @ \o streamedMatches[Max(found)].sources,
                !.teams   = IF @ = <<>> /\ streamedMatches[Max(found)].teams # <<>>
                            THEN streamedMatches[Max(found)].teams ELSE @]

\* the body of displayMatches.forEach for one master match
Enrich(match, streamedMatches) ==
    LET found == FoundFor(streamedMatches, match)
    IN  IF found = {} THEN match
        ELSE [match EXCEPT
                !.sources = @ \o streamedMatches[Min(found)].sources,
                !.teams   = IF @ = <<>> /\ streamedMatches[Min(found)].teams # <<>>
                            THEN streamedMatches[Min(found)].teams ELSE @]

\* a merge that also lists the backend-B matches no master match took
MergeKeepsOrphans(ppvMatches, streamedMatches) ==
    [i \in 1..Len(ppvMatches) |-> Enrich(ppvMatches[i], streamedMatches)]
      \o SelectSeq(streamedMatches,
                   LAMBDA sm : \A i \in 1..Len(ppvMatches) :
                                  ~(sm.title = ppvMatches[i].title
                                      /\ Abs(sm.date - ppvMatches[i].date) < MergeWindowMs))

\* the list getAllMatches returns once both branches have settled
MergeMatches(ppvMatches, streamedMatches) ==
    [i \in 1..Len(ppvMatches) |-> Enrich(ppvMatches[i], streamedMatches)]

\* bounds of the sports specifications
MaxLoopStreams == 3
MaxMasterStreams == 2
MaxStreamedMatches == 2
MaxLoopStreamedMatches == 1

Titles == {"x", "y"}
LoopStartSeconds == {0, 7199, 7200, 7201}
MasterStartSeconds == {0, 7200}
StreamedDates == {3600000, 7200000}

\* Stream i of a backend-A payload. Odd positions carry an inline iframe and
\* no tag, even positions a tag and only a uri_name.
PPVStream(i, name, starts_at, always_live) ==
    [name        |-> name,
     tag         |-> IF i % 2 = 1 THEN <<>> ELSE <<"h", "d">>,
     poster      |-> <<>>,
     uri_name    |-> <<"u", Digits[i + 1]>>,
     starts_at   |-> starts_at,
     iframe      |-> IF i % 2 = 1 THEN << <<"/", "/", "e", Digits[i + 1]>> >> ELSE <<>>,
     always_live |-> always_live]

\* the category lists of backend-A payloads: the streams in two categories
PPVCategoryLists(startSeconds, n) ==
    {LET streams == [i \in 1..Len(q) |-> PPVStream(i, q[i][1], q[i][2], q[i][3])]
         half    == (Len(q) + 1) \div 2
     IN  <<[category |-> "c1", streams |-> SubSeq(streams, 1, half)],
           [category |-> "c2", streams |-> SubSeq(streams, half + 1, Len(q))]>> :
        q \in SeqsUpTo(Titles \X startSeconds \X {0, 1}, n)}

\* payloads whose streams carry posters: a first stream with a relative or
\* an absolute path, and a second of the same or of another title whose path
\* holds an unpaired surrogate
PPVPosterLists ==
    {<<[category |-> "c1",
        streams  |-> <<[PPVStream(1, "x", 0, 0) EXCEPT !.poster = p],
                       [PPVStream(2, t, 0, 0) EXCEPT !.poster = q]>>]>> :
        p \in {<<"/", "p", " ", "1">>, <<"h", "t", "t", "p", ":", "x">>},
        q \in {<<"a", LoneSurrogate>>, <<"h", "t", "t", "p", LoneSurrogate>>},
        t \in {"x", "y"}}

\* Record j of a backend-B list. Odd positions carry teams; position j carries
\* j % 3 sources, none at all when that is 0.
StreamedRecord(j, title, date) ==
    [title    |-> title,
     category |-> "football",
     date     |-> date,
     poster   |-> <<>>,
     popular  |-> (j % 2 = 0),
     teams    |-> IF j % 2 = 1
                  THEN <<[home |-> [name |-> "h", badge |-> <<"b">>],
                          away |-> [name |-> "a", badge |-> <<>>]]>>
                  ELSE <<>>,
     sources  |-> IF j % 3 = 0 THEN <<>>
                  ELSE << [k \in 1..(j % 3) |->
                             [source |-> <<"a">>, id |-> <<Digits[j + 1], Digits[k + 1]>>]] >>]

StreamedLists(n) ==
    {[j \in 1..Len(q) |-> StreamedRecord(j, q[j][1], q[j][2])] :
        q \in SeqsUpTo(Titles \X StreamedDates, n)}

Backends == {"ppv", "streamed"}

SportsBodies(b) ==
    IF b = "ppv"
    THEN {PPVNull, PPVBody(TRUE, "absent", <<>>), PPVBody(TRUE, "object", <<>>)}
           \cup {PPVBody(FALSE, "array", c) : c \in PPVCategoryLists(MasterStartSeconds, 1)}
           \cup {PPVBody(TRUE, "array", c) :
                    c \in PPVCategoryLists(MasterStartSeconds, MaxMasterStreams)}
           \cup {PPVBody(TRUE, "array", c) : c \in PPVPosterLists}
    ELSE {StreamedBody(FALSE, <<>>),
          StreamedBody(TRUE, <<StreamedRecord(1, "x", 3600000), <<>>>>)}
           \cup {StreamedBody(TRUE, l) : l \in StreamedLists(MaxStreamedMatches)}

\* what a request of backend b may end in (how fetchApi treats each kind of
\* failure is the subject of SpecFetch; one kind stands for them here)
SportsOutcomes(b) == {NetErr} \cup SuccessOutcomes({200}, SportsBodies(b))

SportsUrl(b) == IF b = "ppv" THEN <<PPV_BASE, "/streams">> ELSE <<STREAMED_BASE, "/matches/all">>

\* the branch of backend b once its fetchApi call is done
Normalized(b, fs) == IF b = "ppv" THEN getMatchesFromPPV(fs) ELSE getMatchesFromStreamed(fs)

TryThrows(b, fs) == IF b = "ppv" THEN PPVTryThrows(fs) ELSE StreamedTryThrows(fs)

\* a backend-B branch whose handler passes the error on
RethrowsStreamed(b) == b = "streamed"

\* catch (e) { console.error(..., e); return []; }: the handler of neither
\* branch throws
CatchRethrows(b) == FALSE

\* the promise of branch b rejects
BranchRejects(b, fs) == TryThrows(b, fs) /\ CatchRethrows(b)

SIdle == [pc |-> "idle", matches |-> <<>>]
SFetchIdle == [b \in Backends |-> FetchIdle]
SNormIdle == [b \in Backends |-> <<>>]
LoopIdle == [pc |-> "idle", items |-> <<>>, pos |-> 0, matches |-> <<>>, streamed |-> <<>>]

\* getAllMatches() is called: both branches run up to their relay request
GetAllMatchesCall ==
    /\ sCall.pc = "idle"
    /\ sCall' = [sCall EXCEPT !.pc = "awaiting"]
    /\ sFetch' = [b \in Backends |-> FetchStart(SportsUrl(b))]
    /\ UNCHANGED <<fetchCall, torrentio_url, tCall, tProv, tReqs, sNorm, sOrder, ppvLoop, rCall,
                   nCall, player, details>>

\* a request of one branch settles; a branch whose fetchApi call is done
\* normalizes its data and settles. Promise.all, and with it the call that
\* awaits it outside any try, rejects as soon as a branch rejects.
SportsRequestSettles ==
    /\ sCall.pc = "awaiting"
    /\ \E b \in Backends :
         /\ FetchAwaiting(sFetch[b])
         /\ \E o \in SportsOutcomes(b) :
              LET fs == FetchSettled(sFetch[b], o)
              IN  /\ sFetch' = [sFetch EXCEPT ![b] = fs]
                  /\ IF ~FetchDone(fs)
                     THEN UNCHANGED <<sCall, sNorm, sOrder>>
                     ELSE IF BranchRejects(b, fs)
                     THEN /\ sCall' = [pc |-> "raised", matches |-> <<>>]
                          /\ UNCHANGED <<sNorm, sOrder>>
                     ELSE /\ sNorm' = [sNorm EXCEPT ![b] = <<Normalized(b, fs)>>]
                          /\ sOrder' = Append(sOrder, b)
                          /\ UNCHANGED sCall
    /\ UNCHANGED <<fetchCall, torrentio_url, tCall, tProv, tReqs, ppvLoop, rCall,
                   nCall, player, details>>

\* Promise.all resolves: enrich the master list and return it
GetAllMatchesJoin ==
    /\ sCall.pc = "awaiting"
    /\ \A b \in Backends : sNorm[b] # <<>>
    /\ sCall' = [pc |-> "done", matches |-> MergeMatches(sNorm["ppv"][1], sNorm["streamed"][1])]
    /\ UNCHANGED <<fetchCall, torrentio_url, tCall, tProv, tReqs, sFetch, sNorm, sOrder, ppvLoop, rCall,
                   nCall, player, details>>

\* one iteration of the inner forEach of getMatchesFromPPV
NormalizeNextStream ==
    /\ ppvLoop.pc = "loop"
    /\ ppvLoop.pos < Len(ppvLoop.items)
    /\ ppvLoop' = IF StreamThrows(ppvLoop.matches, ppvLoop.items[ppvLoop.pos + 1].stream)
                  THEN [ppvLoop EXCEPT !.pc = "thrown", !.pos = @ + 1, !.matches = <<>>]
                  ELSE [ppvLoop EXCEPT
                          !.pos = @ + 1,
                          !.matches = ProcessStream(@, ppvLoop.items[ppvLoop.pos + 1].category,
                                                    ppvLoop.items[ppvLoop.pos + 1].stream)]
    /\ UNCHANGED <<fetchCall, torrentio_url, tCall, tProv, tReqs, sCall, sFetch, sNorm, sOrder, rCall,
                   nCall, player, details>>

\* the forEach of getAllMatches over the list the loop produced, against the
\* normalized list of one backend-B response
EnrichNormalized ==
    /\ ppvLoop.pc = "loop"
    /\ ppvLoop.pos = Len(ppvLoop.items)
    /\ \E l \in StreamedLists(MaxLoopStreamedMatches) :
         LET streamedMatches == [j \in 1..Len(l) |-> StreamedMatch(l[j])]
         IN  ppvLoop' = [ppvLoop EXCEPT
                           !.pc = "merged",
                           !.streamed = streamedMatches,
                           !.matches = MergeMatches(@, streamedMatches)]
    /\ UNCHANGED <<fetchCall, torrentio_url, tCall, tProv, tReqs, sCall, sFetch, sNorm, sOrder, rCall,
                   nCall, player, details>>

\* ------------------------------------------------------------------ stream resolver

StreamedMarker == <<"s", "t", "r", "e", "a", "m", "e", "d", ":", ":">>
IframeMarker == <<"i", "f", "r", "a", "m", "e", ":">>
Separator == <<":", ":">>

\* the positions at which pat occurs in s
Occurs(s, pat) ==
    {p \in 1..(Len(s) - Len(pat) + 1) : SubSeq(s, p, p + Len(pat) - 1) = pat}

\* String.prototype.split with a string separator
RECURSIVE Split(_, _)
Split(s, sep) ==
    IF Occurs(s, sep) = {} THEN <<s>>
    ELSE <<SubSeq(s, 1, Min(Occurs(s, sep)) - 1)>>
           \o Split(SubSeq(s, Min(Occurs(s, sep)) + Len(sep), Len(s)), sep)

\* String.prototype.replace with a string pattern: the first occurrence only
ReplaceFirst(s, pat, by) ==
    IF Occurs(s, pat) = {} THEN s
    ELSE SubSeq(s, 1, Min(Occurs(s, pat)) - 1) \o by
           \o SubSeq(s, Min(Occurs(s, pat)) + Len(pat), Len(s))

IsQuote(c) == c \in {"\"", "'"}

\* the end of the longest run of [^"'] that starts at p: the position of the
\* next quote, or one past the end of the string
RunEnd(url, p) == Min({k \in p..Len(url) : IsQuote(url[k])} \cup {Len(url) + 1})

\* /src=["']([^"']+)["']/ matches at position p
SrcMatchesAt(url, p) ==
    /\ p + 5 <= Len(url)
    /\ SubSeq(url, p, p + 3) = <<"s", "r", "c", "=">>
    /\ IsQuote(url[p + 4])
    /\ RunEnd(url, p + 5) > p + 5
    /\ RunEnd(url, p + 5) <= Len(url)

\* url.match(/src=["']([^"']+)["']/): <<>> for null, else <<group 1>> of the
\* leftmost match
SrcMatch(url) ==
    LET ps == {p \in 1..Len(url) : SrcMatchesAt(url, p)}
    IN  IF ps = {} THEN <<>>
        ELSE <<SubSeq(url, Min(ps) + 5, RunEnd(url, Min(ps) + 5) - 1)>>

\* the url the iframe branch hands back for locator id
EmbedUrl(id) ==
    LET stripped  == ReplaceFirst(id, IframeMarker, <<>>)
        srcMatch  == SrcMatch(stripped)
        extracted == IF srcMatch # <<>> /\ Len(srcMatch[1]) > 0 THEN srcMatch[1] ELSE stripped
    IN  IF StartsWith(extracted, <<"/", "/">>)
        THEN <<"h", "t", "t", "p", "s", ":">> \o extracted
        ELSE extracted

\* return [{ id: 'direct', streamNo: 1, language: 'Default', hd: true, embedUrl: url, source }]
DirectStream(source, url) ==
    [id |-> "direct", streamNo |-> 1, language |-> "Default", hd |-> TRUE,
     embedUrl |-> url, source |-> source]

\* `${STREAMED_BASE}/stream/${realSource}/${realId}`
StreamedStreamUrl(realSource, realId) ==
    <<STREAMED_BASE>> \o <<"/", "s", "t", "r", "e", "a", "m", "/">> \o realSource \o <<"/">> \o realId

\* a lookup URL built from the arguments as they came
LegacyUrlAsGiven(source, id) ==
    <<PPV_BASE>> \o <<"/", "s", "t", "r", "e", "a", "m", "/">> \o source \o <<"/">> \o id

\* `${PPV_BASE}/stream/${safeSource}/${safeId}`
LegacyStreamUrl(source, id) ==
    <<PPV_BASE>> \o <<"/", "s", "t", "r", "e", "a", "m", "/">> \o toLowerCase(source) \o <<"/">> \o encodeURIComponent(id)

\* a dispatch that takes the iframe branch only for markup with a src attribute
BranchMarkupOnly(id) ==
    IF StartsWith(id, StreamedMarker) /\ Len(Split(id, Separator)) >= 3 THEN "streamed"
    ELSE IF StartsWith(id, IframeMarker) /\ SrcMatch(id) # <<>> THEN "iframe"
    ELSE "legacy"

\* the branch of getMatchStreams that takes locator id
Branch(id) ==
    IF StartsWith(id, StreamedMarker) /\ Len(Split(id, Separator)) >= 3 THEN "streamed"
    ELSE IF StartsWith(id, IframeMarker) THEN "iframe"
    ELSE "legacy"

\* a decoded body of a stream endpoint: a list of streams, or something else
StreamsBody(isArray, list) == [isArray |-> isArray, list |-> list]

\* a lookup whose handler passes the error on in the bare-key branch
LegacyRethrows(branch) == branch = "legacy"

\* catch (e) { console.error(..., e); return []; }: the handler of neither
\* lookup branch throws
LookupCatchRethrows(branch) == FALSE

\* what a lookup branch returns once its fetchApi call is done
LookupResult(branch, fs) ==
    IF fs.pc = "rejected" THEN <<>>                               \* catch: return []
    ELSE IF branch = "streamed"
    THEN IF fs.value[1].isArray THEN fs.value[1].list ELSE <<>>   \* Array.isArray(data) ? data : []
    ELSE IF ~fs.value[1].isArray \/ Len(fs.value[1].list) = 0     \* !Array.isArray(data) || !data.length
    THEN <<>>
    ELSE fs.value[1].list

RIdle == [pc |-> "idle", source |-> <<>>, id |-> <<>>, record |-> <<>>, branch |-> "none",
          fetch |-> FetchIdle, result |-> <<>>]

\* the call once fetchApi(url) has run to its first await, or has thrown
\* before one into the catch of its branch
LookupStarted(call, url) ==
    LET fs == FetchStart(url)
    IN  IF ~FetchDone(fs) THEN [call EXCEPT !.pc = "awaiting", !.fetch = fs]
        ELSE IF LookupCatchRethrows(call.branch)
        THEN [call EXCEPT !.pc = "raised", !.fetch = fs]
        ELSE [call EXCEPT !.pc = "done", !.fetch = fs,
                          !.result = LookupResult(call.branch, fs)]

\* the state of the call when getMatchStreams(source, id) reaches its first
\* await or returns without one
MatchStreamsStart(source, id, record) ==
    LET call == [RIdle EXCEPT !.source = source, !.id = id, !.record = record,
                              !.branch = Branch(id)]
        parts == Split(id, Separator)
    IN  IF Branch(id) = "streamed"
        THEN LookupStarted(call, StreamedStreamUrl(parts[2], parts[3]))
        ELSE IF Branch(id) = "iframe"
        THEN [call EXCEPT !.pc = "done", !.result = <<DirectStream(source, EmbedUrl(id))>>]
        ELSE IF EncodeThrows(id)
        THEN IF LookupCatchRethrows("legacy")
             THEN [call EXCEPT !.pc = "raised"]
             ELSE [call EXCEPT !.pc = "done", !.result = <<>>]
        ELSE LookupStarted(call, LegacyStreamUrl(source, id))

\* the state of the call when a request of its fetchApi call settles with o
MatchStreamsSettled(call, o) ==
    LET fs == FetchSettled(call.fetch, o)
    IN  IF ~FetchDone(fs) THEN [call EXCEPT !.fetch = fs]
        ELSE IF fs.pc = "rejected" /\ LookupCatchRethrows(call.branch)
        THEN [call EXCEPT !.pc = "raised", !.fetch = fs]
        ELSE [call EXCEPT !.pc = "done", !.fetch = fs,
                          !.result = LookupResult(call.branch, fs)]

\* inputs of the resolver specification
\* source labels: tags of backend streams, free text
SourceLabels == {<<"P", "P", "V", " ", "1">>, <<"h", "d">>, <<"U+00C9">>, <<"h", LoneSurrogate>>,
                 <<"A", "U+03A3", "U+FEFF", "b">>}

\* the source records of backend B: labels and ids, some holding the separator
StreamedSourceNames ==
    {<<"a", "l", "p", "h", "a">>, <<"a", ":", ":", "b">>, <<>>, <<"a", LoneSurrogate>>}
StreamedSourceIds == {<<"m", "-", "1">>, <<"m", ":", ":", "1">>, <<"m", ":", "1">>}
StreamedSourceRecords ==
    {[source |-> n, id |-> i] : n \in StreamedSourceNames, i \in StreamedSourceIds}

\* what follows the marker in an inline-iframe locator
IframeRemainders ==
    {<<"/", "/", "c", "d", "n", ".", "t", "e", "s", "t", "/", "v">>,
     <<"h", "t", "t", "p", "s", ":", "/", "/", "x", ".", "t", "e", "s", "t", "/", "a">>,
     <<"<", "i", "f", "r", "a", "m", "e", " ", "s", "r", "c", "=", "'", "h", "t", "t", "p", "s", ":", "/", "/", "x", ".", "t", "e", "s", "t", "/", "a", "'", ">", "<", "/", "i", "f", "r", "a", "m", "e", ">">>,
     <<"<", "i", "f", "r", "a", "m", "e", " ", "s", "r", "c", "=", "\"", "/", "/", "x", ".", "t", "e", "s", "t", "/", "a", "\"", ">">>,
     <<"<", "i", "f", "r", "a", "m", "e", " ", "s", "r", "c", "=", "\"", "\"", ">">>,
     <<"<", "i", "f", "r", "a", "m", "e", " ", "s", "r", "c", "=", "\"", "/", "i", "t", "'", "s", "\"", ">">>,
     <<"<", "i", "f", "r", "a", "m", "e", " ", "s", "r", "c", "=", "\"", "/", "a", "'", ">">>,
     <<"<", "i", " ", "s", "r", "c", "=", "'", "/", "a", "'", " ", "s", "r", "c", "=", "\"", "/", "b", "\"", ">">>,
     <<>>,
     <<"i", "f", "r", "a", "m", "e", ":", "x">>,
     <<"<", "i", "f", "r", "a", "m", "e", " ", "s", "r", "c", "=", "/", "a", ">">>}

\* locators of neither kind, and locators that only resemble a marker
BareLocators ==
    {<<"u", "1">>,
     <<"a", "/", "b">>,
     <<"F", "i", "g", "h", "t", " ", "N", "i", "g", "h", "t">>,
     <<"s", "t", "r", "e", "a", "m", "e", "d", ":", ":">>,
     <<"s", "t", "r", "e", "a", "m", "e", "d", ":", ":", "x">>,
     <<"s", "t", "r", "e", "a", "m", "e", "d", ":", "x", ":", "1">>,
     <<"x", "i", "f", "r", "a", "m", "e", ":", "y">>,
     <<"I", "f", "r", "a", "m", "e", ":", "y">>,
     <<>>}
      \cup {<<"u", LoneSurrogate>>}

\* (sourceLabel, locator) pairs; record is the backend-B source record the
\* locator was built from by getMatchesFromStreamed, if it was
ResolverInputs ==
    {[source |-> StreamedSources(<< <<r>> >>)[1].source, id |-> StreamedSources(<< <<r>> >>)[1].id,
      record |-> <<r>>] : r \in StreamedSourceRecords}
      \cup {[source |-> l, id |-> IframeMarker \o rem, record |-> <<>>] :
               l \in SourceLabels, rem \in IframeRemainders}
      \cup {[source |-> l, id |-> id, record |-> <<>>] : l \in SourceLabels, id \in BareLocators}

BackendStream(n) ==
    [id |-> "s", streamNo |-> n, language |-> "English", hd |-> (n = 1),
     embedUrl |-> <<"h", "t", "t", "p", "s", ":", "/", "/", "e", ".", "t", "e", "s", "t", "/">> \o <<Digits[n + 1]>>, source |-> <<"a", "l", "p", "h", "a">>]

ResolverBodies ==
    {StreamsBody(FALSE, <<>>), StreamsBody(TRUE, <<>>), StreamsBody(TRUE, <<BackendStream(1)>>),
     StreamsBody(TRUE, <<BackendStream(1), BackendStream(2)>>)}

ResolverOutcomes ==
    FailureOutcomes(StreamsBody(FALSE, <<>>)) \cup SuccessOutcomes({200}, ResolverBodies)

\* getMatchStreams(source, id) is called
GetMatchStreamsCall ==
    /\ rCall.pc = "idle"
    /\ \E in \in ResolverInputs : rCall' = MatchStreamsStart(in.source, in.id, in.record)
    /\ UNCHANGED <<fetchCall, torrentio_url, tCall, tProv, tReqs, sCall, sFetch, sNorm, sOrder,
                   ppvLoop, nCall, player, details>>

\* a request of the lookup settles
MatchStreamsRequestSettles ==
    /\ rCall.pc = "awaiting"
    /\ FetchAwaiting(rCall.fetch)
    /\ \E o \in ResolverOutcomes : rCall' = MatchStreamsSettled(rCall, o)
    /\ UNCHANGED <<fetchCall, torrentio_url, tCall, tProv, tReqs, sCall, sFetch, sNorm, sOrder,
                   ppvLoop, nCall, player, details>>

\* ------------------------------------------------------------------ services/sports.ts

NEW_API_BASE == "https://ppv.to"

\* the 3 hour window of the find in getMatchesFromNewApi
NewApiWindowMs == 10800000

\* stream.tag || `Stream ${existing.sources.length + 1}`
NewApiSourceLabel(stream, n) ==
    IF stream.tag # <<>> THEN stream.tag
    ELSE <<"S", "t", "r", "e", "a", "m", " ", Digits[n + 2]>>

\* matches.find(m => m.title === stream.name && Math.abs(m.date - starts_at * 1000) < 10800000)
NewApiExistingFor(matches, stream) ==
    {i \in 1..Len(matches) :
        /\ matches[i].title = stream.name
        /\ Abs(matches[i].date - stream.starts_at * 1000) < NewApiWindowMs}

\* a loop body that leaves out the streams flagged always_live
NewApiSkipsAlwaysLive(stream) == stream.always_live # 0

\* the inner forEach of getMatchesFromNewApi has no test of always_live
NewApiSkipped(stream) == FALSE

\* the body of the inner forEach for one stream of category cat
NewApiProcessStream(matches, category, stream) ==
    IF NewApiSkipped(stream) THEN matches
    ELSE LET found == NewApiExistingFor(matches, stream)
         IN  IF found = {}
             THEN Append(matches,
                         [title    |-> stream.name,
                          category |-> category,
                          date     |-> stream.starts_at * 1000,
                          poster   |-> stream.poster,
                          popular  |-> <<>>,
                          teams    |-> <<>>,
                          sources  |-> <<[source |-> NewApiSourceLabel(stream, 0),
                                          id     |-> SourceId(stream)]>>])
             ELSE [matches EXCEPT ![Min(found)].sources =
                      Append(@, [source |-> NewApiSourceLabel(stream, Len(@)),
                                 id     |-> SourceId(stream)])]

RECURSIVE NewApiWalk(_, _)
NewApiWalk(items, n) ==
    IF n = 0 THEN <<>>
    ELSE NewApiProcessStream(NewApiWalk(items, n - 1), items[n].category, items[n].stream)

\* getMatchesFromNewApi once its one request, through the relay, settled in o
getMatchesFromNewApi(o) ==
    IF ~AttemptSucceeds(o) THEN <<>>                         \* fetch / !res.ok / json: catch
    ELSE IF o.body[1].isNull THEN <<>>                       \* data.success throws: catch
    ELSE IF ~o.body[1].success \/ o.body[1].streamsKind = "absent" THEN <<>>
    ELSE IF o.body[1].streamsKind = "object" THEN <<>>       \* forEach is no function: catch
    ELSE NewApiWalk(Items(o.body[1].streams), Len(Items(o.body[1].streams)))

\* inputs of the specification
NewApiStartSeconds == {0, 10799, 10800}

NewApiBodies ==
    {PPVNull, PPVBody(TRUE, "absent", <<>>), PPVBody(TRUE, "object", <<>>)}
      \cup {PPVBody(FALSE, "array", c) : c \in PPVCategoryLists(NewApiStartSeconds, 1)}
      \cup {PPVBody(TRUE, "array", c) :
               c \in PPVCategoryLists(NewApiStartSeconds, MaxMasterStreams)}

NewApiOutcomes == FailureOutcomes(PPVNull) \cup SuccessOutcomes({200}, NewApiBodies)

NIdle == [pc |-> "idle", reqs |-> <<>>, o |-> NetErr, matches |-> <<>>]

\* getAllMatches(): NEW_API_BASE is set, so getMatchesFromNewApi runs up to
\* its fetch
NewApiGetAllMatchesCall ==
    /\ nCall.pc = "idle"
    /\ nCall' = [nCall EXCEPT !.pc = "awaiting",
                              !.reqs = <<RelayRequest(<<NEW_API_BASE, "/api/streams">>)>>]
    /\ UNCHANGED <<fetchCall, torrentio_url, tCall, tProv, tReqs, sCall, sFetch, sNorm, sOrder,
                   ppvLoop, rCall, player, details>>

\* the request settles and getAllMatches returns
NewApiRequestSettles ==
    /\ nCall.pc = "awaiting"
    /\ \E o \in NewApiOutcomes :
         nCall' = [nCall EXCEPT !.pc = "done", !.o = o, !.matches = getMatchesFromNewApi(o)]
    /\ UNCHANGED <<fetchCall, torrentio_url, tCall, tProv, tReqs, sCall, sFetch, sNorm, sOrder,
                   ppvLoop, rCall, player, details>>

\* ------------------------------------------------------------------ pages/SportsPlayer.tsx

\* most provider-header clicks of one view
MaxSourceClicks == 3

\* `${source.source}-${source.id}`
sourceKey(source) == source.source \o <<"-">> \o source.id

SourceA == [source |-> <<"a">>, id |-> <<"1">>]
SourceB == [source |-> <<"b">>, id |-> <<"2">>]

\* match.sources of the view's match
MatchSourceLists == {<<>>, <<SourceA>>, <<SourceA, SourceB>>}

PlayerStream(key, n, hd, language) ==
    [embedUrl |-> key \o <<"/", ToString(n)>>, hd |-> hd, language |-> language]

\* what getMatchStreams may resolve to for a source
PlayerStreamLists(key) ==
    { <<>>,
      <<PlayerStream(key, 1, FALSE, <<"E","n","g","l","i","s","h">>)>>,
      <<PlayerStream(key, 1, FALSE, <<>>), PlayerStream(key, 2, TRUE, <<"F","r">>)>> }

\* String.prototype.includes
Includes(s, needle) == Occurs(s, needle) # {}

IsHdEnglish(s) ==
    s.hd /\ Includes(toLowerCase(s.language), <<"e","n","g","l","i","s","h">>)

\* streams.find(hd && english) || streams.find(hd) || streams[0]
BestStream(streams) ==
    IF \E i \in 1..Len(streams) : IsHdEnglish(streams[i])
    THEN streams[Min({i \in 1..Len(streams) : IsHdEnglish(streams[i])})]
    ELSE IF \E i \in 1..Len(streams) : streams[i].hd
    THEN streams[Min({i \in 1..Len(streams) : streams[i].hd})]
    ELSE streams[1]

\* the view's state at construction: the useState initial values, no call of
\* getMatchStreams made or pending
PlayerIdle ==
    [pc |-> "idle", sources |-> <<>>, expandedSource |-> <<>>,
     streamsCache |-> <<>>, loadingSourceId |-> <<>>, activeStream |-> <<>>,
     streamError |-> FALSE, pending |-> <<>>, fetched |-> <<>>, clicks |-> 0,
     last |-> "none"]

\* streamsCache[sourceKey] is truthy
Cached(cache, key) == key \in DOMAIN cache

\* { ...prev, [sourceKey]: streams }
WithStreams(prev, key, streams) ==
    [k \in DOMAIN prev \cup {key} |-> IF k = key THEN streams ELSE prev[k]]

\* the keys given to getMatchStreams so far, in call order
CallsFor(p, key) == Cardinality({i \in 1..Len(p.fetched) : p.fetched[i] = key})

\* toggleSource(source) up to its await, run with the state of the render
\* the handler was created in
ToggleSource(p, source) ==
    LET key == sourceKey(source) IN
    IF p.expandedSource = <<key>> /\ p.loadingSourceId = <<>>
    THEN [p EXCEPT !.expandedSource = <<>>]
    ELSE IF Cached(p.streamsCache, key)
    THEN [p EXCEPT !.expandedSource = <<key>>]
    ELSE [p EXCEPT !.expandedSource = <<key>>,
                   !.loadingSourceId = <<key>>,
                   !.fetched = Append(@, key),
                   !.pending = Append(@, [key |-> key, activeStream |-> p.activeStream])]

\* the activeStream the continuation of a call tests: the one of the
\* render its toggleSource was created in
TestedActiveStream(p, call) == call.activeStream

\* toggleSource after its await: cache the streams, auto-play, stop loading
ToggleSourceResumes(p, i, streams) ==
    LET call == p.pending[i]
        plays == TestedActiveStream(p, call) = <<>> /\ Len(streams) > 0
    IN [p EXCEPT !.streamsCache = WithStreams(@, call.key, streams),
                 !.activeStream = IF plays THEN <<BestStream(streams)>> ELSE @,
                 !.streamError = IF plays THEN FALSE ELSE @,
                 !.loadingSourceId = <<>>,
                 !.pending = SubSeq(@, 1, i - 1) \o SubSeq(@, i + 1, Len(@))]

\* the mount effect: toggles the first source when there is one
PlayerMounts ==
    /\ player.pc = "idle"
    /\ \E sources \in MatchSourceLists :
         LET p == [player EXCEPT !.pc = "mounted", !.sources = sources, !.last = "mount"]
         IN player' = IF Len(sources) > 0 THEN ToggleSource(p, sources[1]) ELSE p
    /\ UNCHANGED <<fetchCall, torrentio_url, tCall, tProv, tReqs, sCall, sFetch, sNorm, sOrder,
                   ppvLoop, rCall, nCall, details>>

\* a click on a provider header
PlayerClicksSource ==
    /\ player.pc = "mounted"
    /\ player.clicks < MaxSourceClicks
    /\ \E i \in 1..Len(player.sources) :
         player' = [ToggleSource(player, player.sources[i])
                       EXCEPT !.clicks = @ + 1, !.last = "toggle"]
    /\ UNCHANGED <<fetchCall, torrentio_url, tCall, tProv, tReqs, sCall, sFetch, sNorm, sOrder,
                   ppvLoop, rCall, nCall, details>>

\* a getMatchStreams promise resolves and its toggleSource resumes
PlayerFetchCompletes ==
    /\ player.pc = "mounted"
    /\ \E i \in 1..Len(player.pending) :
         \E streams \in PlayerStreamLists(player.pending[i].key) :
            player' = [ToggleSourceResumes(player, i, streams) EXCEPT !.last = "resume"]
    /\ UNCHANGED <<fetchCall, torrentio_url, tCall, tProv, tReqs, sCall, sFetch, sNorm, sOrder,
                   ppvLoop, rCall, nCall, details>>

\* the stream buttons on screen: those of the expanded provider once it is
\* not loading
ShownStreams(p) ==
    IF p.expandedSource # <<>> /\ p.loadingSourceId # p.expandedSource
       /\ Cached(p.streamsCache, p.expandedSource[1])
    THEN p.streamsCache[p.expandedSource[1]]
    ELSE <<>>

\* a click on a stream button: handlePlayStream(stream)
PlayerClicksStream ==
    /\ player.pc = "mounted"
    /\ \E i \in 1..Len(ShownStreams(player)) :
         player' = [player EXCEPT !.activeStream = <<ShownStreams(player)[i]>>,
                                  !.streamError = FALSE,
                                  !.last = "play"]
    /\ UNCHANGED <<fetchCall, torrentio_url, tCall, tProv, tReqs, sCall, sFetch, sNorm, sOrder,
                   ppvLoop, rCall, nCall, details>>

\* the player frame of the active stream reports an error
PlayerFrameErrors ==
    /\ player.pc = "mounted"
    /\ player.activeStream # <<>>
    /\ ~player.streamError
    /\ player' = [player EXCEPT !.streamError = TRUE, !.last = "error"]
    /\ UNCHANGED <<fetchCall, torrentio_url, tCall, tProv, tReqs, sCall, sFetch, sNorm, sOrder,
                   ppvLoop, rCall, nCall, details>>

\* ------------------------------------------------------------------ pages/Details.tsx

\* most changes of the season or episode selector in one view
MaxSelections == 1

SelectableSeasons == {1, 2}
SelectableEpisodes == {1, 2}

\* the items the view may be given
DetailItems == {[id |-> 7, media_type |-> "tv"], [id |-> 8, media_type |-> "tv"],
                [id |-> 9, media_type |-> "movie"]}

\* getProgressForId(item.id): none, or a saved season and episode
SavedProgress == {<<>>, <<[season |-> 2, episode |-> 2]>>}

\* getDetails(item.id, ...): rejected, or a detail with or without
\* external_ids.imdb_id
DetailOutcomes(item) ==
    {[kind |-> "rejected", imdb_id |-> <<>>],
     [kind |-> "detail", imdb_id |-> <<>>],
     [kind |-> "detail", imdb_id |-> << <<"t", "t", Digits[item.id + 1]>> >>]}

\* what getEpisodeStreams(imdbId, season, episode) may resolve to
EpisodeStreamLists(imdbId, season, episode) ==
    { <<>>, <<[infoHash |-> <<imdbId, season, episode>>]>> }

\* what getStreams(MediaType.MOVIE, imdbId) may resolve to
MovieStreamLists(imdbId) == { <<>>, <<[infoHash |-> <<imdbId, 0, 0>>]>> }

\* the view at construction: the useState initial values; infos are the
\* calls of fetchInfo and requests the calls of fetchEp that have not ended,
\* issued counts the calls of fetchEp and answer holds what the last of them
\* resolved to
DetailsIdle ==
    [pc |-> "idle", item |-> <<>>, detail |-> <<>>, selectedSeason |-> 1,
     selectedEpisode |-> 1, streams |-> <<>>, loadingStreams |-> FALSE, infos |-> <<>>,
     requests |-> <<>>, issued |-> 0, answer |-> <<>>, selections |-> 0, replaced |-> FALSE]

\* sequence q without its element i
Without(q, i) == SubSeq(q, 1, i - 1) \o SubSeq(q, i + 1, Len(q))

\* the effect on [item]: fetchInfo is called for the item and awaits
\* getDetails
InfoEffect(d, item) ==
    [d EXCEPT !.item = <<item>>,
              !.infos = Append(@, [item |-> item, pc |-> "details", imdb_id |-> <<>>])]

\* the effect on [selectedSeason, selectedEpisode, detail], run after a
\* render that changed one of them: fetchEp up to its await
EpisodeEffect(before, after, detailSet) ==
    IF (detailSet \/ <<before.selectedSeason, before.selectedEpisode>>
                        # <<after.selectedSeason, after.selectedEpisode>>)
       /\ after.item[1].media_type = "tv"
       /\ after.detail # <<>> /\ after.detail[1].imdb_id # <<>>
    THEN [after EXCEPT !.loadingStreams = TRUE,
                       !.issued = @ + 1,
                       !.answer = <<>>,
                       !.requests = Append(@, [imdb_id |-> after.detail[1].imdb_id[1],
                                               season |-> after.selectedSeason,
                                               episode |-> after.selectedEpisode,
                                               nth |-> after.issued + 1])]
    ELSE after

\* the view is mounted with an item
DetailsMounts ==
    /\ details.pc = "idle"
    /\ \E item \in DetailItems :
         details' = InfoEffect([details EXCEPT !.pc = "mounted"], item)
    /\ UNCHANGED <<fetchCall, torrentio_url, tCall, tProv, tReqs, sCall, sFetch, sNorm, sOrder,
                   ppvLoop, rCall, nCall, player>>

\* the item prop is replaced (a recommendation is clicked, the history moves):
\* the state of the view is kept and fetchInfo runs for the new item. A view
\* of the model has its item replaced once at most.
DetailsItemChanges ==
    /\ details.pc = "mounted"
    /\ ~details.replaced
    /\ \E item \in DetailItems \ {details.item[1]} :
         details' = InfoEffect([details EXCEPT !.replaced = TRUE], item)
    /\ UNCHANGED <<fetchCall, torrentio_url, tCall, tProv, tReqs, sCall, sFetch, sNorm, sOrder,
                   ppvLoop, rCall, nCall, player>>

\* getDetails of a fetchInfo settles: the catch, or the detail and the saved
\* progress are set and fetchInfo awaits its further lookups
DetailsInfoSettles ==
    /\ details.pc = "mounted"
    /\ \E i \in 1..Len(details.infos) :
         /\ details.infos[i].pc = "details"
         /\ \E o \in DetailOutcomes(details.infos[i].item), progress \in SavedProgress :
              LET loaded == [details EXCEPT
                               !.infos[i].pc = "rest",
                               !.infos[i].imdb_id = o.imdb_id,
                               !.detail = <<[imdb_id |-> o.imdb_id]>>,
                               !.selectedSeason =
                                   IF progress # <<>> THEN progress[1].season ELSE @,
                               !.selectedEpisode =
                                   IF progress # <<>> THEN progress[1].episode ELSE @]
              IN details' = IF o.kind = "rejected"
                            THEN [details EXCEPT !.infos = Without(@, i)]
                            ELSE EpisodeEffect(details, loaded, TRUE)
    /\ UNCHANGED <<fetchCall, torrentio_url, tCall, tProv, tReqs, sCall, sFetch, sNorm, sOrder,
                   ppvLoop, rCall, nCall, player>>

\* getVideos, getRecommendations and getCollection of a fetchInfo have
\* settled: the catch, or for a movie with an imdb_id the call of getStreams
DetailsInfoContinues ==
    /\ details.pc = "mounted"
    /\ \E i \in 1..Len(details.infos) :
         /\ details.infos[i].pc = "rest"
         /\ \E ok \in BOOLEAN :
              details' =
                 IF ~ok THEN [details EXCEPT !.infos = Without(@, i)]
                 ELSE IF details.infos[i].item.media_type = "movie"
                         /\ details.infos[i].imdb_id # <<>>
                 THEN [details EXCEPT !.infos[i].pc = "streams", !.loadingStreams = TRUE]
                 ELSE [details EXCEPT !.infos = Without(@, i)]
    /\ UNCHANGED <<fetchCall, torrentio_url, tCall, tProv, tReqs, sCall, sFetch, sNorm, sOrder,
                   ppvLoop, rCall, nCall, player>>

\* getStreams of a fetchInfo resolves
DetailsMovieStreamsSettle ==
    /\ details.pc = "mounted"
    /\ \E i \in 1..Len(details.infos) :
         /\ details.infos[i].pc = "streams"
         /\ \E s \in MovieStreamLists(details.infos[i].imdb_id[1]) :
              details' = [details EXCEPT !.infos = Without(@, i),
                                         !.streams = s,
                                         !.loadingStreams = FALSE]
    /\ UNCHANGED <<fetchCall, torrentio_url, tCall, tProv, tReqs, sCall, sFetch, sNorm, sOrder,
                   ppvLoop, rCall, nCall, player>>

\* the selectors are on screen: a detail is set and the item is a series
SelectorsShown(d) == d.pc = "mounted" /\ d.detail # <<>> /\ d.item[1].media_type = "tv"

\* the season selector changes: season n, episode 1
DetailsSelectsSeason ==
    /\ SelectorsShown(details)
    /\ details.selections < MaxSelections
    /\ \E n \in SelectableSeasons \ {details.selectedSeason} :
         details' = EpisodeEffect(details,
                       [details EXCEPT !.selectedSeason = n, !.selectedEpisode = 1,
                                       !.selections = @ + 1], FALSE)
    /\ UNCHANGED <<fetchCall, torrentio_url, tCall, tProv, tReqs, sCall, sFetch, sNorm, sOrder,
                   ppvLoop, rCall, nCall, player>>

\* the episode selector changes
DetailsSelectsEpisode ==
    /\ SelectorsShown(details)
    /\ details.selections < MaxSelections
    /\ \E n \in SelectableEpisodes \ {details.selectedEpisode} :
         details' = EpisodeEffect(details,
                       [details EXCEPT !.selectedEpisode = n, !.selections = @ + 1], FALSE)
    /\ UNCHANGED <<fetchCall, torrentio_url, tCall, tProv, tReqs, sCall, sFetch, sNorm, sOrder,
                   ppvLoop, rCall, nCall, player>>

\* a getEpisodeStreams promise resolves and its fetchEp resumes
DetailsEpisodeStreamsSettle ==
    /\ details.pc = "mounted"
    /\ \E i \in 1..Len(details.requests) :
         LET r == details.requests[i] IN
         \E s \in EpisodeStreamLists(r.imdb_id, r.season, r.episode) :
            details' = [details EXCEPT !.requests = Without(@, i),
                                       !.answer = IF r.nth = details.issued THEN <<s>> ELSE @,
                                       !.streams = s,
                                       !.loadingStreams = FALSE]
    /\ UNCHANGED <<fetchCall, torrentio_url, tCall, tProv, tReqs, sCall, sFetch, sNorm, sOrder,
                   ppvLoop, rCall, nCall, player>>

\* ------------------------------------------------------------------ specifications

InitFetch ==
    /\ fetchCall = FetchIdle
    /\ torrentio_url = <<>>
    /\ tCall = TIdle /\ tProv = PIdle /\ tReqs = <<>>
    /\ sCall = SIdle /\ sFetch = SFetchIdle /\ sNorm = SNormIdle /\ sOrder = <<>>
    /\ ppvLoop = LoopIdle
    /\ rCall = RIdle
    /\ nCall = NIdle /\ player = PlayerIdle /\ details = DetailsIdle

NextFetch == FetchApiCall \/ FetchApiSettles

SpecFetch == InitFetch /\ [][NextFetch]_vars

InitTorrent ==
    /\ fetchCall = FetchIdle
    /\ torrentio_url \in StoredUrls
    /\ tCall = TIdle /\ tProv = PIdle /\ tReqs = <<>>
    /\ sCall = SIdle /\ sFetch = SFetchIdle /\ sNorm = SNormIdle /\ sOrder = <<>>
    /\ ppvLoop = LoopIdle
    /\ rCall = RIdle
    /\ nCall = NIdle /\ player = PlayerIdle /\ details = DetailsIdle

NextTorrent == GetStreamsCall \/ GetEpisodeStreamsCall \/ ProviderSettles \/ TorrentJoin

SpecTorrent == InitTorrent /\ [][NextTorrent]_vars

InitSports ==
    /\ fetchCall = FetchIdle
    /\ torrentio_url = <<>>
    /\ tCall = TIdle /\ tProv = PIdle /\ tReqs = <<>>
    /\ sCall = SIdle /\ sFetch = SFetchIdle /\ sNorm = SNormIdle /\ sOrder = <<>>
    /\ ppvLoop = LoopIdle
    /\ rCall = RIdle
    /\ nCall = NIdle /\ player = PlayerIdle /\ details = DetailsIdle

NextSports == GetAllMatchesCall \/ SportsRequestSettles \/ GetAllMatchesJoin

SpecSports == InitSports /\ [][NextSports]_vars

\* the loops of getMatchesFromPPV over every payload, started on an empty
\* list, each followed by the enrichment step of getAllMatches
InitPPV ==
    /\ fetchCall = FetchIdle
    /\ torrentio_url = <<>>
    /\ tCall = TIdle /\ tProv = PIdle /\ tReqs = <<>>
    /\ sCall = SIdle /\ sFetch = SFetchIdle /\ sNorm = SNormIdle /\ sOrder = <<>>
    /\ ppvLoop \in {[pc |-> "loop", items |-> Items(c), pos |-> 0, matches |-> <<>>,
                       streamed |-> <<>>] :
                      c \in PPVCategoryLists(LoopStartSeconds, MaxLoopStreams) \cup PPVPosterLists}
    /\ rCall = RIdle
    /\ nCall = NIdle /\ player = PlayerIdle /\ details = DetailsIdle

NextPPV == NormalizeNextStream \/ EnrichNormalized

SpecPPV == InitPPV /\ [][NextPPV]_vars

InitResolver ==
    /\ fetchCall = FetchIdle
    /\ torrentio_url = <<>>
    /\ tCall = TIdle /\ tProv = PIdle /\ tReqs = <<>>
    /\ sCall = SIdle /\ sFetch = SFetchIdle /\ sNorm = SNormIdle /\ sOrder = <<>>
    /\ ppvLoop = LoopIdle
    /\ rCall = RIdle
    /\ nCall = NIdle /\ player = PlayerIdle /\ details = DetailsIdle

NextResolver == GetMatchStreamsCall \/ MatchStreamsRequestSettles

SpecResolver == InitResolver /\ [][NextResolver]_vars

\* one call of either aggregator: the two fan-outs over Promise.all
InitJoin ==
    /\ fetchCall = FetchIdle
    /\ torrentio_url = <<>>
    /\ tCall = TIdle /\ tProv = PIdle /\ tReqs = <<>>
    /\ sCall = SIdle /\ sFetch = SFetchIdle /\ sNorm = SNormIdle /\ sOrder = <<>>
    /\ ppvLoop = LoopIdle
    /\ rCall = RIdle
    /\ nCall = NIdle /\ player = PlayerIdle /\ details = DetailsIdle

NextJoin ==
    \/ sCall.pc = "idle" /\ NextTorrent
    \/ tCall.pc = "idle" /\ NextSports

SpecJoin == InitJoin /\ [][NextJoin]_vars

InitNewApi ==
    /\ fetchCall = FetchIdle
    /\ torrentio_url = <<>>
    /\ tCall = TIdle /\ tProv = PIdle /\ tReqs = <<>>
    /\ sCall = SIdle /\ sFetch = SFetchIdle /\ sNorm = SNormIdle /\ sOrder = <<>>
    /\ ppvLoop = LoopIdle
    /\ rCall = RIdle
    /\ nCall = NIdle /\ player = PlayerIdle /\ details = DetailsIdle

NextNewApi == NewApiGetAllMatchesCall \/ NewApiRequestSettles

SpecNewApi == InitNewApi /\ [][NextNewApi]_vars

InitPlayer ==
    /\ fetchCall = FetchIdle
    /\ torrentio_url = <<>>
    /\ tCall = TIdle /\ tProv = PIdle /\ tReqs = <<>>
    /\ sCall = SIdle /\ sFetch = SFetchIdle /\ sNorm = SNormIdle /\ sOrder = <<>>
    /\ ppvLoop = LoopIdle
    /\ rCall = RIdle
    /\ nCall = NIdle /\ player = PlayerIdle /\ details = DetailsIdle

NextPlayer ==
    \/ PlayerMounts
    \/ PlayerClicksSource
    \/ PlayerFetchCompletes
    \/ PlayerClicksStream
    \/ PlayerFrameErrors

SpecPlayer == InitPlayer /\ [][NextPlayer]_vars

InitDetails ==
    /\ fetchCall = FetchIdle
    /\ torrentio_url = <<>>
    /\ tCall = TIdle /\ tProv = PIdle /\ tReqs = <<>>
    /\ sCall = SIdle /\ sFetch = SFetchIdle /\ sNorm = SNormIdle /\ sOrder = <<>>
    /\ ppvLoop = LoopIdle
    /\ rCall = RIdle
    /\ nCall = NIdle /\ player = PlayerIdle /\ details = DetailsIdle

NextDetails ==
    \/ DetailsMounts
    \/ DetailsItemChanges
    \/ DetailsInfoSettles
    \/ DetailsInfoContinues
    \/ DetailsMovieStreamsSettle
    \/ DetailsSelectsSeason
    \/ DetailsSelectsEpisode
    \/ DetailsEpisodeStreamsSettle

SpecDetails == InitDetails /\ [][NextDetails]_vars

\* ------------------------------------------------------------------ properties: torrent aggregator

\* the backend of provider p answered with a list of streams
AnsweredList(p) ==
    /\ tProv[p].pc = "settled"
    /\ tProv[p].o.kind = "response"
    /\ tProv[p].o.status >= 200 /\ tProv[p].o.status <= 299
    /\ tProv[p].o.decodes
    /\ ~tProv[p].o.body[1].isNull
    /\ tProv[p].o.body[1].streamsKind = "array"

\* the request of provider p failed: network error, non-success status or
\* undecodable body
RequestFailed(p) ==
    /\ tProv[p].pc = "settled"
    /\ \/ tProv[p].o.kind = "neterr"
       \/ tProv[p].o.status < 200 \/ tProv[p].o.status > 299
       \/ ~tProv[p].o.decodes

ListOf(p) == tProv[p].o.body[1].streams

\* (primary, secondary) concatenation of the two answered lists
Concatenation == ListOf("torrentio") \o ListOf("knightcrawler")

\* an entry has an infoHash when the field is a non-empty string
HasInfoHash(s) == s.infoHash # <<>> /\ s.infoHash[1] # <<>>

\* positions of q whose entry has the same infoHash as entry i
SameHash(q, i) == {j \in 1..Len(q) : q[j].infoHash = q[i].infoHash}

\* positions of q holding exactly the entry e
Occurrences(q, e) == {k \in 1..Len(q) : q[k] = e}

RECURSIVE IsSubsequence(_, _)
IsSubsequence(a, b) ==
    IF a = <<>> THEN TRUE
    ELSE IF b = <<>> THEN FALSE
    ELSE IF Head(a) = Head(b) THEN IsSubsequence(Tail(a), Tail(b))
    ELSE IsSubsequence(a, Tail(b))

\* q without every entry whose infoHash an earlier entry of q carries
RECURSIVE FirstOccurrences(_, _)
FirstOccurrences(q, n) ==
    IF n = 0 THEN <<>>
    ELSE IF HasInfoHash(q[n]) /\ \E j \in 1..(n - 1) : q[j].infoHash = q[n].infoHash
         THEN FirstOccurrences(q, n - 1)
         ELSE Append(FirstOccurrences(q, n - 1), q[n])

BothAnswered == tCall.pc = "done" /\ AnsweredList("torrentio") /\ AnsweredList("knightcrawler")

\* C1: when both backends answer with lists, every infoHash that occurs twice or
\* more in the (primary, secondary) concatenation, compared exactly as received,
\* occurs exactly once in the returned list, and the entry returned is the
\* earliest one of the concatenation.
C1_DedupKeepsEarliest ==
    BothAnswered =>
        \A i \in 1..Len(Concatenation) :
            (HasInfoHash(Concatenation[i]) /\ Cardinality(SameHash(Concatenation, i)) >= 2) =>
                /\ Cardinality(SameHash(tCall.streams \o <<Concatenation[i]>>,
                                        Len(tCall.streams) + 1)) = 2
                /\ Occurrences(tCall.streams,
                               Concatenation[Min(SameHash(Concatenation, i))]) # {}

C1_Witness ==
    /\ BothAnswered
    /\ \E i \in 1..Len(ListOf("torrentio")), j \in 1..Len(ListOf("knightcrawler")) :
          /\ HasInfoHash(ListOf("torrentio")[i])
          /\ ListOf("torrentio")[i].infoHash = ListOf("knightcrawler")[j].infoHash
    /\ Len(tCall.streams) < Len(Concatenation)

\* C2: the returned list is a subsequence of the concatenation in the same
\* order, every entry without an infoHash is returned as often as it occurs,
\* and an entry is removed only if an earlier entry carries its infoHash.
C2_DedupStable ==
    BothAnswered =>
        /\ IsSubsequence(tCall.streams, Concatenation)
        /\ \A i \in 1..Len(Concatenation) :
              /\ ~HasInfoHash(Concatenation[i]) =>
                    Cardinality(Occurrences(tCall.streams, Concatenation[i]))
                      = Cardinality(Occurrences(Concatenation, Concatenation[i]))
              /\ Occurrences(tCall.streams, Concatenation[i]) = {} =>
                    /\ HasInfoHash(Concatenation[i])
                    /\ \E j \in 1..(i - 1) :
                          Concatenation[j].infoHash = Concatenation[i].infoHash

C2_Witness ==
    /\ BothAnswered
    /\ \E i, j \in 1..Len(Concatenation) :
          /\ i < j
          /\ ~HasInfoHash(Concatenation[i]) /\ ~HasInfoHash(Concatenation[j])
          /\ Concatenation[i].infoHash = Concatenation[j].infoHash
    /\ Len(tCall.streams) < Len(Concatenation)

\* C3: when the request of exactly one backend fails and the other answers
\* with list L, the call returns L deduplicated; when both requests fail it
\* returns the empty list.
C3_PartialFailure ==
    tCall.pc = "done" =>
        /\ \A p \in Providers : \A q \in Providers \ {p} :
              (RequestFailed(p) /\ AnsweredList(q)) =>
                  tCall.streams = FirstOccurrences(ListOf(q), Len(ListOf(q)))
        /\ (\A p \in Providers : RequestFailed(p)) => tCall.streams = <<>>

C3_Witness ==
    /\ tCall.pc = "done"
    /\ tProv["knightcrawler"].o.kind = "neterr"
    /\ AnsweredList("torrentio")
    /\ Len(tCall.streams) = 2

\* an id that does not begin with the prefix 'tt'
LacksPrefix(id) == Len(id) < 2 \/ id[1] # "t" \/ id[2] # "t"

\* C4: getStreams called with an id that does not begin with 'tt' returns the
\* empty list and issues no request to either backend.
C4_MovieShortCircuit ==
    (tCall.fn = "getStreams" /\ LacksPrefix(tCall.id)) =>
        /\ tCall.pc = "done"
        /\ tCall.streams = <<>>
        /\ tReqs = <<>>
        /\ \A p \in Providers : tProv[p].pc = "idle"

C4_Witness == tCall.fn = "getStreams" /\ LacksPrefix(tCall.id) /\ tCall.pc = "done"

IsDigit(c) == \E d \in 1..Len(Digits) : Digits[d] = c

\* an id that is not 'tt' followed by digits
Malformed(id) == LacksPrefix(id) \/ Len(id) < 3 \/ \E k \in 3..Len(id) : ~IsDigit(id[k])

\* C5: getEpisodeStreams called with a malformed id issues no request and
\* returns the empty list.
C5_EpisodeShortCircuit ==
    (tCall.fn = "getEpisodeStreams" /\ Malformed(tCall.id)) =>
        /\ tReqs = <<>>
        /\ tCall.pc = "done" => tCall.streams = <<>>

\* ------------------------------------------------------------------ properties: fetchApi

\* the attempt whose request settled in o yielded a value
Yielded(o) == o.kind = "response" /\ o.status >= 200 /\ o.status <= 299 /\ o.decodes

\* the ordering and the bound of the requests of a call
RelayFirstAtMostTwo ==
    /\ Len(fetchCall.reqs) <= 2
    /\ fetchCall.pc # "idle" =>
          Len(fetchCall.reqs) >= 1 /\ fetchCall.reqs[1] = RelayRequest(fetchCall.url)
    /\ Len(fetchCall.reqs) = 2 =>
          /\ fetchCall.reqs[2] = DirectRequest(fetchCall.url)
          /\ Len(fetchCall.seen) >= 1
          /\ ~Yielded(fetchCall.seen[1])
    /\ (Len(fetchCall.seen) >= 1 /\ Yielded(fetchCall.seen[1])) =>
          /\ Len(fetchCall.reqs) = 1
          /\ fetchCall.pc = "resolved"
    /\ fetchCall.pc \in {"resolved", "rejected"} => Len(fetchCall.seen) = Len(fetchCall.reqs)

\* C6 as claimed: every call of fetchApi issues the relay request first, the
\* direct request only once the relay attempt has failed and never after it
\* succeeded, and at most two requests in all.
C6_RelayFirstAtMostTwo == RelayFirstAtMostTwo

\* C6 (amended): the same for every call whose URL can be percent-encoded; a
\* call whose URL holds an unpaired surrogate fails with the URIError of the
\* encoding and issues no request.
C6_RelayFirstWhenEncodable ==
    IF EncodeThrows(fetchCall.url)
    THEN /\ fetchCall.pc = "rejected"
         /\ fetchCall.reqs = <<>>
         /\ fetchCall.thrown = <<UrlError>>
    ELSE RelayFirstAtMostTwo

C6_Witness ==
    /\ fetchCall.pc = "resolved"
    /\ Len(fetchCall.reqs) = 2
    /\ fetchCall.seen[1].kind = "neterr"

\* C7 as stated: the direct request is issued if and only if the relay request
\* ended in a network failure or a non-2xx status.
C7_FallbackIffNetworkOrStatus ==
    Len(fetchCall.seen) >= 1 =>
        (Len(fetchCall.reqs) = 2
            <=> (fetchCall.seen[1].kind = "neterr"
                   \/ fetchCall.seen[1].status < 200 \/ fetchCall.seen[1].status > 299))

\* C7 amended: the direct request is issued if and only if the relay request
\* ended in a network failure, a non-2xx status, or a 2xx response whose body
\* does not decode as JSON; a 2xx relay response with a decodable body never
\* causes a second request.
C7_FallbackIffAttemptFailed ==
    Len(fetchCall.seen) >= 1 =>
        (Len(fetchCall.reqs) = 2
            <=> (fetchCall.seen[1].kind = "neterr"
                   \/ fetchCall.seen[1].status < 200 \/ fetchCall.seen[1].status > 299
                   \/ ~fetchCall.seen[1].decodes))

C7_Witness ==
    /\ Len(fetchCall.reqs) = 2
    /\ fetchCall.seen[1].kind = "response"
    /\ fetchCall.seen[1].status = 200
    /\ ~fetchCall.seen[1].decodes

\* C8: when the relay request and the direct request have both failed,
\* fetchApi fails with the error of the relay attempt.
C8_FailsWithRelayError ==
    (Len(fetchCall.seen) = 2 /\ ~Yielded(fetchCall.seen[2])) =>
        /\ fetchCall.pc = "rejected"
        /\ fetchCall.thrown = <<AttemptError("relay", fetchCall.seen[1])>>
        /\ fetchCall.thrown[1].attempt = "relay"

C8_Witness ==
    /\ fetchCall.pc = "rejected"
    /\ Len(fetchCall.seen) = 2
    /\ fetchCall.seen[1].kind = "neterr"
    /\ fetchCall.seen[2].kind = "response"
    /\ fetchCall.seen[2].status = 404

\* ------------------------------------------------------------------ properties: sports aggregator

\* positions of the streams of the loop that are not always-live feeds
EventStreams == {i \in 1..Len(ppvLoop.items) : ppvLoop.items[i].stream.always_live = 0}

LoopFinished == ppvLoop.pc = "loop" /\ ppvLoop.pos = Len(ppvLoop.items)

\* the locators of the Sources of match m, in order
Locators(m) == [k \in 1..Len(m.sources) |-> m.sources[k].id]

\* the two event streams of a payload that holds exactly two, of the same name
TwoSameName ==
    /\ LoopFinished
    /\ Cardinality(EventStreams) = 2
    /\ ppvLoop.items[Min(EventStreams)].stream.name
         = ppvLoop.items[Max(EventStreams)].stream.name

FirstEvent == ppvLoop.items[Min(EventStreams)].stream
SecondEvent == ppvLoop.items[Max(EventStreams)].stream

\* C9: a payload with exactly two event streams of identical name whose start
\* times differ by d ms normalizes to one Match holding the two Sources in
\* encounter order when d < 7,200,000, and to two Matches of one Source each
\* when d >= 7,200,000.
C9_FuzzyMergeThreshold ==
    TwoSameName =>
        IF Abs(FirstEvent.starts_at * 1000 - SecondEvent.starts_at * 1000) < 7200000
        THEN /\ Len(ppvLoop.matches) = 1
             /\ Locators(ppvLoop.matches[1]) = <<SourceId(FirstEvent), SourceId(SecondEvent)>>
        ELSE /\ Len(ppvLoop.matches) = 2
             /\ Locators(ppvLoop.matches[1]) = <<SourceId(FirstEvent)>>
             /\ Locators(ppvLoop.matches[2]) = <<SourceId(SecondEvent)>>

C9_Witness ==
    /\ TwoSameName
    /\ Abs(FirstEvent.starts_at - SecondEvent.starts_at) = 7199
    /\ Len(ppvLoop.matches) = 1
    /\ Len(ppvLoop.matches[1].sources) = 2

\* getAllMatches returned and its backend-A branch normalized a payload: the
\* loops ran over it to the end
MasterNormalized ==
    /\ sCall.pc = "done"
    /\ sFetch["ppv"].pc = "resolved"
    /\ ~PPVTryThrows(sFetch["ppv"])
    /\ sFetch["ppv"].value[1].success
    /\ sFetch["ppv"].value[1].streamsKind = "array"

\* the streams of the payload backend A delivered, in payload order
MasterStreams == Items(sFetch["ppv"].value[1].streams)

\* the (match, source) positions of the returned list
ReturnedSources ==
    UNION {{<<i, k>> : k \in 1..Len(sCall.matches[i].sources)} : i \in 1..Len(sCall.matches)}

\* a Source of backend B carries the composite marker
FromStreamed(src) == StartsWith(src.id, <<"s", "t", "r", "e", "a", "m", "e", "d", ":", ":">>)

\* the locator the stream's name-independent fields determine
LocatorOf(stream) ==
    IF stream.iframe # <<>> /\ stream.iframe[1] # <<>>
    THEN <<"i", "f", "r", "a", "m", "e", ":">> \o stream.iframe[1]
    ELSE stream.uri_name

\* C10: in the list getAllMatches returns for a normalized backend-A payload,
\* no Source comes from a stream with always_live = 1, whatever its other
\* fields, and the Sources that come from backend A are as many as the
\* streams with always_live = 0, one for each.
C10_AlwaysLiveFiltered ==
    MasterNormalized =>
        /\ \A n \in 1..Len(MasterStreams) :
              MasterStreams[n].stream.always_live = 1 =>
                  \A ik \in ReturnedSources :
                      sCall.matches[ik[1]].sources[ik[2]].id # LocatorOf(MasterStreams[n].stream)
        /\ \A n \in 1..Len(MasterStreams) :
              MasterStreams[n].stream.always_live = 0 =>
                  Cardinality({ik \in ReturnedSources :
                      sCall.matches[ik[1]].sources[ik[2]].id
                        = LocatorOf(MasterStreams[n].stream)}) = 1
        /\ Cardinality({ik \in ReturnedSources :
                          ~FromStreamed(sCall.matches[ik[1]].sources[ik[2]])})
             = Cardinality({n \in 1..Len(MasterStreams) :
                              MasterStreams[n].stream.always_live = 0})

C10_Witness ==
    /\ MasterNormalized
    /\ \E n \in 1..Len(MasterStreams) : MasterStreams[n].stream.always_live = 1
    /\ \E n \in 1..Len(MasterStreams) : MasterStreams[n].stream.always_live = 0
    /\ \E ik \in ReturnedSources : FromStreamed(sCall.matches[ik[1]].sources[ik[2]])

\* the streams of the loop handled so far whose Source opens match m: the
\* stream that created m
CreatorsOf(m) ==
    {n \in 1..ppvLoop.pos :
        /\ ppvLoop.items[n].stream.always_live = 0
        /\ LocatorOf(ppvLoop.items[n].stream) = m.sources[1].id}

\* C11: every Match produced from backend A carries as date 1000 times the
\* starts_at (seconds) of the stream that created it, and that value is the
\* same after every later stream appended to the Match and after the merge
\* with backend B.
C11_DateIsCreatorMillis ==
    \A i \in 1..Len(ppvLoop.matches) :
        /\ Cardinality(CreatorsOf(ppvLoop.matches[i])) = 1
        /\ \A n \in CreatorsOf(ppvLoop.matches[i]) :
              ppvLoop.matches[i].date = 1000 * ppvLoop.items[n].stream.starts_at

\* a Match created at 7199 s that took a later stream starting at 0 s and the
\* Sources of a backend-B match dated 3,600,000 ms
C11_Witness ==
    /\ ppvLoop.pc = "merged"
    /\ \E i \in 1..Len(ppvLoop.matches) :
          /\ ppvLoop.matches[i].date = 7199000
          /\ \E n \in 1..Len(ppvLoop.items) :
                /\ ppvLoop.items[n].stream.starts_at = 0
                /\ \E k \in 2..Len(ppvLoop.matches[i].sources) :
                      ppvLoop.matches[i].sources[k].id = LocatorOf(ppvLoop.items[n].stream)
          /\ \E k \in 1..Len(ppvLoop.matches[i].sources) :
                FromStreamed(ppvLoop.matches[i].sources[k])
          /\ \E j \in 1..Len(ppvLoop.streamed) : ppvLoop.streamed[j].date = 3600000

\* ------------------------------------------------------------------ properties: getAllMatches

Returned == sCall.pc = "done"

\* the lists the two branches of Promise.all resolved with
MasterList == sNorm["ppv"][1]
StreamedList == sNorm["streamed"][1]

EventKey(m) == <<m.title, m.category, m.date>>

\* master match M and backend-B match sm denote the same event
Corresponds(M, sm) == sm.title = M.title /\ Abs(sm.date - M.date) < 7200000

\* the backend-B matches no master match corresponds to
Orphans == {j \in 1..Len(StreamedList) :
               \A i \in 1..Len(MasterList) : ~Corresponds(MasterList[i], StreamedList[j])}

\* C12: the list getAllMatches returns has the length and the sequence of
\* (title, category, date) of backend A's normalized list: the merge adds,
\* removes and reorders nothing, and a backend-B match with no corresponding
\* master entry appears nowhere in the result, neither as a Match nor through
\* its Sources.
C12_MasterListDefinesEvents ==
    Returned =>
        /\ Len(sCall.matches) = Len(MasterList)
        /\ \A i \in 1..Len(MasterList) : EventKey(sCall.matches[i]) = EventKey(MasterList[i])
        /\ \A j \in Orphans :
              /\ \A i \in 1..Len(sCall.matches) :
                    <<sCall.matches[i].title, sCall.matches[i].date>>
                       # <<StreamedList[j].title, StreamedList[j].date>>
              /\ \A k \in 1..Len(StreamedList[j].sources) :
                    \A ik \in ReturnedSources :
                       sCall.matches[ik[1]].sources[ik[2]].id # StreamedList[j].sources[k].id

\* two master matches, one enriched by a backend-B match, and an orphan
\* backend-B match that has Sources
C12_Witness ==
    /\ Returned
    /\ Len(MasterList) = 2
    /\ \E j \in Orphans : StreamedList[j].sources # <<>>
    /\ \E j \in 1..Len(StreamedList) : j \notin Orphans /\ StreamedList[j].sources # <<>>

\* the fetchApi call of branch b is over
Fetched(b) == sFetch[b].pc \in {"resolved", "rejected"}

\* the query of backend b failed: both requests failed, or the body that
\* arrived has not the shape the branch reads
QueryFailed(b) ==
    \/ sFetch[b].pc = "rejected"
    \/ /\ sFetch[b].pc = "resolved"
       /\ IF b = "ppv"
          THEN \/ sFetch[b].value[1].isNull
               \/ ~sFetch[b].value[1].success
               \/ sFetch[b].value[1].streamsKind # "array"
               \/ PPVTryThrows(sFetch[b])
          ELSE \/ ~sFetch[b].value[1].isArray
               \/ \E j \in 1..Len(sFetch[b].value[1].list) : sFetch[b].value[1].list[j] = <<>>

\* the list backend A's payload normalizes to, computed from the payload
ExpectedMaster ==
    NormalizeWalk(Items(sFetch["ppv"].value[1].streams), Len(Items(sFetch["ppv"].value[1].streams)))

\* C13: whatever combination of success and failure the two backend queries
\* end in (both failing and bodies of unexpected shape included),
\* getAllMatches never raises and returns a list; a failed backend
\* contributes exactly the empty list, and when only backend B fails the
\* result is backend A's normalized list, without any backend-B Source.
C13_FailureContainment ==
    /\ sCall.pc # "raised"
    /\ \A b \in Backends : Fetched(b) => sNorm[b] # <<>>
    /\ \A b \in Backends : Fetched(b) /\ QueryFailed(b) => sNorm[b][1] = <<>>
    /\ (\A b \in Backends : Fetched(b)) => sCall.pc = "done" \/ ENABLED GetAllMatchesJoin
    /\ Returned =>
          /\ DOMAIN sCall.matches = 1..Len(sCall.matches)
          /\ QueryFailed("ppv") => sCall.matches = <<>>
          /\ ~QueryFailed("ppv") /\ QueryFailed("streamed") =>
                /\ sCall.matches = ExpectedMaster
                /\ \A ik \in ReturnedSources :
                      ~FromStreamed(sCall.matches[ik[1]].sources[ik[2]])

\* backend A answered a payload that normalizes to two matches while both
\* requests of backend B failed
C13_Witness ==
    /\ Returned
    /\ ~QueryFailed("ppv")
    /\ Len(sCall.matches) = 2
    /\ sFetch["streamed"].pc = "rejected"

\* the backend-B matches that correspond to master match M, by list position
CorrespondingTo(M) == {j \in 1..Len(StreamedList) : Corresponds(M, StreamedList[j])}

\* C14: for each master Match M, if backend B's normalized list holds a Match
\* of the same title whose date differs by less than 7,200,000 ms, then in
\* the returned list M's Sources are its backend-A Sources in discovery order
\* followed by all Sources of the first such backend-B Match in list order,
\* and M's teams are that Match's teams if M had none; with no such Match
\* M's Sources and teams are unchanged.
C14_MergeResult ==
    Returned =>
        \A i \in 1..Len(MasterList) :
            LET M == MasterList[i]
                R == sCall.matches[i]
            IN  IF CorrespondingTo(M) # {}
                THEN LET B == StreamedList[Min(CorrespondingTo(M))]
                     IN  /\ R.sources = M.sources \o B.sources
                         /\ R.teams = IF M.teams = <<>> THEN B.teams ELSE M.teams
                ELSE R.sources = M.sources /\ R.teams = M.teams

\* a master Match of two backend-A Sources with two corresponding backend-B
\* Matches of different Sources, the first of them with teams; and a master
\* Match with none
C14_Witness ==
    /\ Returned
    /\ \E i \in 1..Len(MasterList) :
          /\ Len(MasterList[i].sources) = 2
          /\ Cardinality(CorrespondingTo(MasterList[i])) = 2
          /\ StreamedList[1].teams # <<>>
          /\ StreamedList[1].sources # StreamedList[2].sources
          /\ sCall.matches[i].teams = StreamedList[1].teams
          /\ Len(sCall.matches[i].sources) = 3

\* ------------------------------------------------------------------ properties: stream resolver

\* getMatchStreams was called with a locator that begins with 'iframe:'
IframeCalled == rCall.pc # "idle" /\ StartsWith(rCall.id, IframeMarker)

\* C15: for every locator that begins with 'iframe:', getMatchStreams issues
\* no network request and returns exactly one Stream, with streamNo 1,
\* language 'Default', hd true and source equal to the sourceLabel argument.
C15_IframeIsSyntactic ==
    IframeCalled =>
        /\ rCall.pc = "done"
        /\ rCall.fetch.reqs = <<>>
        /\ Len(rCall.result) = 1
        /\ rCall.result[1].streamNo = 1
        /\ rCall.result[1].language = "Default"
        /\ rCall.result[1].hd = TRUE
        /\ rCall.result[1].source = rCall.source

\* an iframe locator without any markup, resolved
C15_Witness ==
    /\ IframeCalled
    /\ rCall.pc = "done"
    /\ SrcMatch(rCall.id) = <<>>
    /\ Len(rCall.result) = 1

\* what follows the marker in locator 'iframe:' + R
Remainder == SubSeq(rCall.id, Len(IframeMarker) + 1, Len(rCall.id))

\* R holds, at position p, src= and a value between two quotes q
AttributeAt(R, p, q) ==
    /\ p + 4 <= Len(R)
    /\ SubSeq(R, p, p + 3) = <<"s", "r", "c", "=">>
    /\ R[p + 4] = q
    /\ \E e \in (p + 5)..Len(R) : R[e] = q

SrcAttributes(R) == {p \in 1..Len(R) : AttributeAt(R, p, "\"") \/ AttributeAt(R, p, "'")}

\* the value of the attribute at p: up to the quote that closes it
AttributeValue(R, p) ==
    SubSeq(R, p + 5, Min({e \in (p + 5)..Len(R) : R[e] = R[p + 4]}) - 1)

\* the URL the claim derives from R, before and after the protocol repair
DerivedUrl(R) ==
    IF SrcAttributes(R) # {} THEN AttributeValue(R, Min(SrcAttributes(R))) ELSE R
RepairedUrl(u) ==
    IF StartsWith(u, <<"/", "/">>) THEN <<"h", "t", "t", "p", "s", ":">> \o u ELSE u

\* C16: for a locator 'iframe:' + R the returned embedUrl is the value of the
\* first src="..." / src='...' attribute in R when R contains one, otherwise
\* R itself, with 'https:' put in front when that URL begins with '//'.
C16_EmbedUrlIsFirstSrcValue ==
    IframeCalled /\ rCall.pc = "done" =>
        rCall.result[1].embedUrl = RepairedUrl(DerivedUrl(Remainder))

\* the targets of the requests the call has issued
Targets == {rCall.fetch.reqs[n].target : n \in 1..Len(rCall.fetch.reqs)}

\* the call resolves the locator normalization built for a backend-B record
CompositeCalled == rCall.pc # "idle" /\ rCall.record # <<>>

\* C17: for every backend-B source record (source s, id i), resolving the
\* locator normalization built for it, 'streamed::' + s + '::' + i, issues the
\* lookup to backend B's stream endpoint for exactly the pair (s, i).
C17_CompositeRoundTrip ==
    CompositeCalled =>
        /\ rCall.fetch.reqs # <<>>
        /\ Targets = {<<STREAMED_BASE>> \o <<"/", "s", "t", "r", "e", "a", "m", "/">>
                         \o rCall.record[1].source \o <<"/">> \o rCall.record[1].id}

\* getMatchStreams was called with a locator that begins with neither marker
BareKeyCalled ==
    /\ rCall.pc # "idle"
    /\ ~StartsWith(rCall.id, IframeMarker)
    /\ ~StartsWith(rCall.id, StreamedMarker)

\* the legacy stream endpoint for the lower-cased label and the encoded key
ExpectedLegacyUrl ==
    <<PPV_BASE>> \o <<"/", "s", "t", "r", "e", "a", "m", "/">>
      \o toLowerCase(rCall.source) \o <<"/">> \o encodeURIComponent(rCall.id)

\* one fetchApi lookup of the legacy endpoint and none of backend B; the
\* response is returned when it is a non-empty list, the empty list otherwise
OneLegacyLookup ==
    /\ rCall.fetch.reqs # <<>>
    /\ rCall.fetch.reqs[1] = RelayRequest(ExpectedLegacyUrl)
    /\ Len(rCall.fetch.reqs) = 2 => rCall.fetch.reqs[2] = DirectRequest(ExpectedLegacyUrl)
    /\ Len(rCall.fetch.reqs) <= 2
    /\ \A t \in Targets : t[1] # STREAMED_BASE
    /\ FetchDone(rCall.fetch) => rCall.pc = "done"
    /\ rCall.pc = "done" =>
          rCall.result = IF /\ rCall.fetch.pc = "resolved"
                            /\ rCall.fetch.value[1].isArray
                            /\ rCall.fetch.value[1].list # <<>>
                         THEN rCall.fetch.value[1].list
                         ELSE <<>>

\* C18 as claimed: for every locator that begins with neither marker,
\* getMatchStreams issues one fetchApi lookup to the legacy backend's stream
\* endpoint with the lower-cased sourceLabel and the percent-encoded key, none
\* to backend B, and returns the response when it is a non-empty list and
\* the empty list otherwise.
C18_BareKeyAlwaysLooksUp == BareKeyCalled => OneLegacyLookup

\* C18 (amended): the same for every such locator that can be percent-encoded
\* and is called with a sourceLabel that can be; when the locator or the
\* sourceLabel holds an unpaired surrogate the call yields the empty list and
\* no request at all.
C18_BareKeyLookup ==
    BareKeyCalled =>
        IF EncodeThrows(rCall.id) \/ EncodeThrows(rCall.source)
        THEN rCall.pc = "done" /\ rCall.result = <<>> /\ rCall.fetch.reqs = <<>>
        ELSE OneLegacyLookup

\* an upper-case label and a key with a character to escape, looked up through
\* the relay and then directly, answered with a list of two streams
C18_Witness ==
    /\ BareKeyCalled
    /\ rCall.pc = "done"
    /\ toLowerCase(rCall.source) # rCall.source
    /\ ~EncodeThrows(rCall.id)
    /\ ~EncodeThrows(rCall.source)
    /\ encodeURIComponent(rCall.id) # rCall.id
    /\ Len(rCall.fetch.reqs) = 2
    /\ Len(rCall.result) = 2

\* the lookup of the call failed: both requests failed, or the body that
\* arrived is not a list
LookupFailed ==
    \/ rCall.fetch.pc = "rejected"
    \/ rCall.fetch.pc = "resolved" /\ ~rCall.fetch.value[1].isArray

\* C19: for every sourceLabel, every locator and every outcome of the network
\* (both requests failing, a non-success status, an undecodable body, a body
\* that is not a list) getMatchStreams never raises and returns a list; in
\* each lookup branch a failed lookup yields the empty list.
C19_ResolverNeverRaises ==
    /\ rCall.pc \in {"idle", "awaiting", "done"}
    /\ rCall.pc = "awaiting" => FetchAwaiting(rCall.fetch)
    /\ rCall.pc = "done" => DOMAIN rCall.result = 1..Len(rCall.result)
    /\ rCall.pc # "idle" /\ LookupFailed => rCall.pc = "done" /\ rCall.result = <<>>

\* a bare-key lookup whose relay request got a non-success status and whose
\* direct request got a body that does not decode
C19_Witness ==
    /\ rCall.pc = "done"
    /\ rCall.branch = "legacy"
    /\ rCall.fetch.pc = "rejected"
    /\ Len(rCall.fetch.seen) = 2
    /\ rCall.fetch.seen[1].status = 404
    /\ rCall.fetch.seen[2].status = 200
    /\ rCall.result = <<>>

\* ------------------------------------------------------------------ properties: join-all fan-out

\* the torrent aggregator returned after issuing its two requests
TorrentJoined == tCall.pc = "done" /\ tReqs # <<>>

\* the list each aggregator owes to the two responses alone
MatchesOfResponses ==
    LET ppvMatches      == Normalized("ppv", sFetch["ppv"])
        streamedMatches == Normalized("streamed", sFetch["streamed"])
    IN  [i \in 1..Len(ppvMatches) |-> Enrich(ppvMatches[i], streamedMatches)]
StreamsOfResponses ==
    LET primary   == fetchFromProvider(tProv["torrentio"].o)
        secondary == fetchFromProvider(tProv["knightcrawler"].o)
    IN  IF primary.spreadable /\ secondary.spreadable
        THEN Deduplicate(primary.list \o secondary.list)
        ELSE <<>>

\* C20: in getAllMatches and in the torrent aggregator the merge / dedup step
\* runs only once both backend queries have settled, and the list returned is
\* the same for every order in which the two settle: it is determined by the
\* two responses alone.
C20_JoinAll ==
    /\ Returned =>
          /\ \A b \in Backends : Fetched(b) /\ sNorm[b] # <<>>
          /\ Len(sOrder) = 2
          /\ sCall.matches = MatchesOfResponses
    /\ TorrentJoined =>
          /\ \A p \in Providers : tProv[p].pc = "settled"
          /\ tCall.streams = StreamsOfResponses

\* the secondary provider settled first, both answered streams, and the
\* primary's streams come first in the returned list
C20_Witness ==
    /\ TorrentJoined
    /\ tProv["knightcrawler"].nth = 1
    /\ tProv["torrentio"].nth = 2
    /\ Len(tCall.streams) >= 2
    /\ tCall.streams[1].title[1] = "torrentio"
    /\ tCall.streams[Len(tCall.streams)].title[1] = "knightcrawler"

\* backend B settled before backend A and its Sources were merged in
C20_WitnessSports ==
    /\ Returned
    /\ sOrder = <<"streamed", "ppv">>
    /\ \E ik \in ReturnedSources : FromStreamed(sCall.matches[ik[1]].sources[ik[2]])

\* ------------------------------------------------------------------ properties: torrent requests

\* the requests the aggregator issued for provider p: the primary's base URL
\* is the one getBaseUrl gives, the secondary's is KNIGHTCRAWLER_BASE_URL
RequestsOf(p) ==
    SelectSeq(tReqs, LAMBDA r : IF p = "knightcrawler"
                                THEN r.to = KNIGHTCRAWLER_BASE_URL \/ r.via = "relay"
                                ELSE r.to # KNIGHTCRAWLER_BASE_URL \/ r.via = "relay")

\* the one request of provider p failed or came back with a non-success status
AttemptFailed(p) ==
    tProv[p].pc = "settled" /\ (tProv[p].o.kind = "neterr" \/ ~ResOk(tProv[p].o))

\* C21: each of the two torrent backend requests goes through fetchApi's
\* scheme: it is first attempted through the CORS relay and, when that attempt
\* fails or returns a non-success status, retried once directly against the
\* backend URL before the backend counts as having no results.
C21_ProvidersUseFallback ==
    tReqs # <<>> =>
        \A p \in Providers :
            /\ RequestsOf(p) # <<>>
            /\ RequestsOf(p)[1].via = "relay"
            /\ AttemptFailed(p) => Len(RequestsOf(p)) = 2

\* entries a and b carry infoHash values that differ only in letter case
DifferOnlyInCase(a, b) ==
    /\ HasInfoHash(a) /\ HasInfoHash(b)
    /\ a.infoHash[1] # b.infoHash[1]
    /\ toLowerCase(a.infoHash[1]) = toLowerCase(b.infoHash[1])

\* C22: infoHash equality is case-insensitive for dedup: of two entries of the
\* concatenated results whose infoHash values differ only in letter case, the
\* returned list holds only the earlier one.
C22_DedupIgnoresCase ==
    BothAnswered =>
        \A i, j \in 1..Len(Concatenation) :
            i < j /\ DifferOnlyInCase(Concatenation[i], Concatenation[j]) =>
                Occurrences(tCall.streams, Concatenation[j]) = {}

\* ------------------------------------------------------------------ properties: grouping

\* C23: at every point during and after backend-A normalization, two distinct
\* Matches of the accumulator that have the same title have start times at
\* least 7,200,000 ms apart, and so has the list after the backend-B merge.
C23_SameTitleMatchesApart ==
    \A i, j \in 1..Len(ppvLoop.matches) :
        i # j /\ ppvLoop.matches[i].title = ppvLoop.matches[j].title =>
            Abs(ppvLoop.matches[i].date - ppvLoop.matches[j].date) >= 7200000

\* after the merge: two Matches of one title exactly 7,200,000 ms apart, one
\* of them grown by a second stream and by Sources of backend B
C23_Witness ==
    /\ ppvLoop.pc = "merged"
    /\ \E i, j \in 1..Len(ppvLoop.matches) :
          /\ ppvLoop.matches[i].title = ppvLoop.matches[j].title
          /\ ppvLoop.matches[j].date - ppvLoop.matches[i].date = 7200000
          /\ Len(ppvLoop.matches[i].sources) >= 3
          /\ \E k \in 1..Len(ppvLoop.matches[i].sources) :
                FromStreamed(ppvLoop.matches[i].sources[k])

\* the Matches of the accumulator that hold a Source made from stream n
MatchesHolding(n) ==
    {i \in 1..Len(ppvLoop.matches) :
        \E k \in 1..Len(ppvLoop.matches[i].sources) :
            ppvLoop.matches[i].sources[k].id = LocatorOf(ppvLoop.items[n].stream)}

\* streams n and m both became Sources of one Match
SameMatch(n, m) == MatchesHolding(n) \cap MatchesHolding(m) # {}

\* C24 as claimed: for every backend-A payload, two event streams of identical
\* name are Sources of the same Match if and only if their own start times
\* differ by less than 7,200,000 ms, whatever other streams of the name there
\* are and in whatever order the streams are listed.
C24_PairwiseGrouping ==
    LoopFinished =>
        \A n, m \in EventStreams :
            n # m /\ ppvLoop.items[n].stream.name = ppvLoop.items[m].stream.name =>
                (SameMatch(n, m)
                   <=> Abs(ppvLoop.items[n].stream.starts_at * 1000
                             - ppvLoop.items[m].stream.starts_at * 1000) < 7200000)

\* the Matches of the accumulator that fit stream n: its name as title and a
\* date less than 7,200,000 ms from its start
Fitting(n) ==
    {i \in 1..Len(ppvLoop.matches) :
        /\ ppvLoop.matches[i].title = ppvLoop.items[n].stream.name
        /\ Abs(ppvLoop.matches[i].date - ppvLoop.items[n].stream.starts_at * 1000) < 7200000}

\* C24 (amended): every event stream of a backend-A payload the loops run
\* over without throwing is a Source of exactly one Match, the first Match
\* of the list, in creation order, whose title is the stream's name and
\* whose date (the start of the stream that created it) is less than
\* 7,200,000 ms from the stream's own start.
C24_GroupedWithFirstFitting ==
    \A n \in EventStreams :
        (n <= ppvLoop.pos /\ ppvLoop.pc # "thrown") =>
            /\ Fitting(n) # {}
            /\ MatchesHolding(n) = {Min(Fitting(n))}

\* three streams of one name starting at 0 s, 7199 s and 7201 s, in that
\* order: the last two start 2 s apart and are in different Matches
C24_Witness ==
    /\ LoopFinished
    /\ Len(ppvLoop.items) = 3
    /\ EventStreams = {1, 2, 3}
    /\ \A n \in 1..3 : ppvLoop.items[n].stream.name = ppvLoop.items[1].stream.name
    /\ ppvLoop.items[1].stream.starts_at = 0
    /\ ppvLoop.items[2].stream.starts_at = 7199
    /\ ppvLoop.items[3].stream.starts_at = 7201
    /\ SameMatch(1, 2)
    /\ ~SameMatch(2, 3)

\* ------------------------------------------------------------------ properties: cross-backend merge

\* the master Matches of the returned list that hold a Source of backend-B
\* match j
MastersHolding(j) ==
    {i \in 1..Len(sCall.matches) :
        \E k \in 1..Len(StreamedList[j].sources) :
            \E n \in 1..Len(sCall.matches[i].sources) :
                sCall.matches[i].sources[n].id = StreamedList[j].sources[k].id}

\* C25 as claimed: in the list getAllMatches returns, the Sources of any
\* single backend-B Match appear in the sources of at most one master Match.
C25_MergedAtMostOnce ==
    Returned => \A j \in 1..Len(StreamedList) : Cardinality(MastersHolding(j)) <= 1

\* C25 (amended): the Sources of a backend-B Match appear in the sources of
\* exactly those master Matches for which it is the first corresponding
\* backend-B Match; there can be two of them.
C25_MergedIntoEachFirstMatch ==
    Returned =>
        \A j \in 1..Len(StreamedList) :
            StreamedList[j].sources # <<>> =>
                MastersHolding(j)
                  = {i \in 1..Len(MasterList) :
                        /\ CorrespondingTo(MasterList[i]) # {}
                        /\ j = Min(CorrespondingTo(MasterList[i]))}

\* two master Matches of one title dated 0 and 7,200,000 ms, both holding the
\* Sources of the backend-B Match dated 3,600,000 ms
C25_Witness ==
    /\ Returned
    /\ Len(MasterList) = 2
    /\ MasterList[1].title = MasterList[2].title
    /\ MasterList[1].date = 0
    /\ MasterList[2].date = 7200000
    /\ \E j \in 1..Len(StreamedList) :
          StreamedList[j].date = 3600000 /\ MastersHolding(j) = {1, 2}

\* ------------------------------------------------------------------ properties: dispatch

\* getMatchStreams was called with a locator that begins with 'streamed::'
MarkedComposite == rCall.pc # "idle" /\ StartsWith(rCall.id, StreamedMarker)

\* C26: every locator that begins with the composite marker 'streamed::', one
\* with a missing key such as 'streamed::x' included, is resolved against
\* backend B or yields the empty list; no request for it goes to the legacy
\* backend's stream endpoint.
C26_CompositeNeverLegacy ==
    MarkedComposite =>
        /\ \A t \in Targets : t[1] # PPV_BASE
        /\ \/ Targets # {} /\ \A t \in Targets : t[1] = STREAMED_BASE
           \/ rCall.pc = "done" /\ rCall.result = <<>>

\* ------------------------------------------------------------------ properties: services/sports.ts

\* getAllMatches of services/sports.ts returned a normalized payload
NewApiNormalized ==
    /\ nCall.pc = "done"
    /\ AttemptSucceeds(nCall.o)
    /\ ~nCall.o.body[1].isNull
    /\ nCall.o.body[1].success
    /\ nCall.o.body[1].streamsKind = "array"

NewApiStreams == Items(nCall.o.body[1].streams)

\* C27: the list getAllMatches of services/sports.ts returns holds no Match
\* and no Source that was created from a backend-A stream with
\* always_live = 1.
C27_NewApiFiltersAlwaysLive ==
    NewApiNormalized =>
        \A n \in 1..Len(NewApiStreams) :
            NewApiStreams[n].stream.always_live = 1 =>
                \A i \in 1..Len(nCall.matches) :
                    \A k \in 1..Len(nCall.matches[i].sources) :
                        nCall.matches[i].sources[k].id # LocatorOf(NewApiStreams[n].stream)

\* ------------------------------------------------------------------ properties: pages/SportsPlayer.tsx

\* C28: during one SportsPlayer view, whatever the provider clicks and their
\* timing (the initial toggle of the first source and a click on a provider
\* that is still loading included), getMatchStreams is called at most once
\* for each source key.
C28_OneCallPerSourceKey ==
    \A i \in 1..Len(player.sources) :
       CallsFor(player, sourceKey(player.sources[i])) <= 1

\* C29: a getMatchStreams completion sets the active stream only when no
\* stream is active at that moment; an active stream, chosen by the user or
\* by an earlier auto-play, is never replaced by a later completion.
C29_CompletionKeepsActiveStream ==
    [][(player'.last = "resume" /\ player.activeStream # <<>>)
          => player'.activeStream = player.activeStream]_vars

\* ------------------------------------------------------------------ properties: pages/Details.tsx

\* C30: when the selected season or episode changed while an episode-stream
\* request was awaited, then once every request has settled the stream list
\* on screen is the one returned for the selected (season, episode),
\* whatever the order of the responses.
C30_SupersededResultsDiscarded ==
    (~details.replaced /\ details.issued > 1 /\ details.requests = <<>>)
        => details.streams = details.answer[1]

====
